---- MODULE Spec2Model ----
(***************************************************************************)
(* A model of the pinyinize pipeline (src/pinyinize): span splitting,      *)
(* tokenization (advisory or Forward Maximum Matching), per-character      *)
(* resolution, the override pass, the double check and output stitching.   *)
(*                                                                         *)
(* Representation.  A Python str is a sequence of Unicode code points      *)
(* (naturals), so that util.is_han, ord() ranges, str comparison and       *)
(* str.replace are computed as the code computes them.  Offsets into the   *)
(* text are 0-based as in the code; text[a:b] is Slice(text, a, b).        *)
(* An Optional value is <<>> for None and <<v>> for a value v.             *)
(* Probabilities are integers in thousandths (1000 = 1.0); the margin test *)
(* (p_f - p2_f) >= float(min_margin) is computed on the IEEE 754 doubles   *)
(* of these numbers, the comparisons of a single number with a threshold   *)
(* on the thousandths, where both orders agree.  An exception that leaves  *)
(* pinyinize ends the invocation at pc = "raised".                         *)
(***************************************************************************)
EXTENDS Integers, Sequences, FiniteSets, TLC

VARIABLES
    text,             \* pinyinize(text, ...): the input text
    res,              \* options.resources (PinyinResources), shared by all runs
    opts,             \* the other PinyinizeOptions fields and the adapters' answers
    pc,               \* position inside pinyinize
    run,              \* number of the current invocation (1, 2)
    spans,            \* spans = split_spans(text)
    tokens,           \* tokens of _tokens_from_spans_llm_or_fallback
    llm_meta,         \* llm_meta of _tokens_from_spans_llm_or_fallback
    token_decisions,  \* token_decisions[(start, end)] : list[CharDecision]
    warnings,         \* warnings collected by _analyze_token
    applied_rules,    \* applied of _apply_overrides
    conflicts,        \* conflicts of _apply_overrides
    review_items_before, \* review items collected before the double check
    double_check_meta,   \* meta of _apply_llm_double_check
    result,           \* PinyinizeResult of the current invocation (<<>> before it returns)
    first_result,     \* PinyinizeResult of invocation 1 (<<>> before it returns)
    calls,            \* calls made to each adapter during the current invocation
    other             \* the locals of a second invocation running in another thread

vars == <<text, res, opts, pc, run, spans, tokens, llm_meta, token_decisions,
          warnings, applied_rules, conflicts, review_items_before, double_check_meta,
          result, first_result, calls, other>>

(***************************************************************************)
(* Code points used by the inputs.                                         *)
(***************************************************************************)
CP == [ xing |-> 34892,   \* U+884C
        yin  |-> 38134,   \* U+94F6
        zhang |-> 38271,  \* U+957F
        hao  |-> 22909,   \* U+597D
        sp   |-> 32, tab |-> 9, nl |-> 10, ideosp |-> 12288,
        a |-> 97, b |-> 98, g |-> 103, h |-> 104, p |-> 112, s |-> 115,
        t |-> 116, v |-> 118, x |-> 120, y |-> 121,
        H |-> 72, P |-> 80, S |-> 83, T |-> 84, V |-> 86,
        one |-> 49, two |-> 50, dot |-> 46, pct |-> 37, under |-> 95,
        dash |-> 45, colon |-> 58, slash |-> 47,
        caret |-> 94, dollar |-> 36, star |-> 42, plus |-> 43, qmark |-> 63,
        fwcolon |-> 65306, \* U+FF1A FULLWIDTH COLON (category Po)
        eacute |-> 233,    \* U+00E9 (category Ll)
        uuml |-> 252,      \* U+00FC
        Uuml |-> 220,      \* U+00DC
        ipag |-> 609 ]     \* U+0261 LATIN SMALL LETTER SCRIPT G

None == <<>>
Some(v) == <<v>>

\* text[a:b] for 0 <= a, b
Slice(str, a, b) == IF b > Len(str) THEN SubSeq(str, a + 1, Len(str)) ELSE SubSeq(str, a + 1, b)

RECURSIVE Concat(_)
\* "".join(parts)
Concat(parts) == IF parts = <<>> THEN <<>> ELSE Head(parts) \o Concat(Tail(parts))

Min(a, b) == IF a < b THEN a ELSE b
Max(a, b) == IF a > b THEN a ELSE b

(***************************************************************************)
(* util.py                                                                 *)
(***************************************************************************)
is_han(cp) ==
    \/ (13312 <= cp /\ cp <= 19903)      \* 0x3400 .. 0x4DBF
    \/ (19968 <= cp /\ cp <= 40959)      \* 0x4E00 .. 0x9FFF
    \/ (63744 <= cp /\ cp <= 64255)      \* 0xF900 .. 0xFAFF
    \/ (131072 <= cp /\ cp <= 173791)    \* 0x20000 .. 0x2A6DF
    \/ (173824 <= cp /\ cp <= 177983)    \* 0x2A700 .. 0x2B73F
    \/ (177984 <= cp /\ cp <= 178207)    \* 0x2B740 .. 0x2B81F
    \/ (178208 <= cp /\ cp <= 183983)    \* 0x2B820 .. 0x2CEAF
    \/ (183984 <= cp /\ cp <= 191471)    \* 0x2CEB0 .. 0x2EBEF

\* str.isspace() on the code points below 0x3001
is_space(cp) ==
    \/ (9 <= cp /\ cp <= 13) \/ (28 <= cp /\ cp <= 32) \/ cp = 133 \/ cp = 160
    \/ cp = 5760 \/ (8192 <= cp /\ cp <= 8202) \/ cp = 8232 \/ cp = 8233
    \/ cp = 8239 \/ cp = 8287 \/ cp = 12288

is_ascii_letter(o) == (65 <= o /\ o <= 90) \/ (97 <= o /\ o <= 122)

is_ascii_digit(o) == 48 <= o /\ o <= 57

\* the code points whose unicodedata.category starts with P or S, as inclusive
\* ranges (Unicode 14.0.0)
PunctOrSymbolRanges ==
    { <<33, 47>>, <<58, 64>>, <<91, 96>>, <<123, 126>>, <<161, 169>>, <<171, 172>>,
      <<174, 177>>, <<180, 180>>, <<182, 184>>, <<187, 187>>, <<191, 191>>, <<215, 215>>,
      <<247, 247>>, <<706, 709>>, <<722, 735>>, <<741, 747>>, <<749, 749>>, <<751, 767>>,
      <<885, 885>>, <<894, 894>>, <<900, 901>>, <<903, 903>>, <<1014, 1014>>, <<1154, 1154>>,
      <<1370, 1375>>, <<1417, 1418>>, <<1421, 1423>>, <<1470, 1470>>, <<1472, 1472>>, <<1475, 1475>>,
      <<1478, 1478>>, <<1523, 1524>>, <<1542, 1551>>, <<1563, 1563>>, <<1565, 1567>>, <<1642, 1645>>,
      <<1748, 1748>>, <<1758, 1758>>, <<1769, 1769>>, <<1789, 1790>>, <<1792, 1805>>, <<2038, 2041>>,
      <<2046, 2047>>, <<2096, 2110>>, <<2142, 2142>>, <<2184, 2184>>, <<2404, 2405>>, <<2416, 2416>>,
      <<2546, 2547>>, <<2554, 2555>>, <<2557, 2557>>, <<2678, 2678>>, <<2800, 2801>>, <<2928, 2928>>,
      <<3059, 3066>>, <<3191, 3191>>, <<3199, 3199>>, <<3204, 3204>>, <<3407, 3407>>, <<3449, 3449>>,
      <<3572, 3572>>, <<3647, 3647>>, <<3663, 3663>>, <<3674, 3675>>, <<3841, 3863>>, <<3866, 3871>>,
      <<3892, 3892>>, <<3894, 3894>>, <<3896, 3896>>, <<3898, 3901>>, <<3973, 3973>>, <<4030, 4037>>,
      <<4039, 4044>>, <<4046, 4058>>, <<4170, 4175>>, <<4254, 4255>>, <<4347, 4347>>, <<4960, 4968>>,
      <<5008, 5017>>, <<5120, 5120>>, <<5741, 5742>>, <<5787, 5788>>, <<5867, 5869>>, <<5941, 5942>>,
      <<6100, 6102>>, <<6104, 6107>>, <<6144, 6154>>, <<6464, 6464>>, <<6468, 6469>>, <<6622, 6655>>,
      <<6686, 6687>>, <<6816, 6822>>, <<6824, 6829>>, <<7002, 7018>>, <<7028, 7038>>, <<7164, 7167>>,
      <<7227, 7231>>, <<7294, 7295>>, <<7360, 7367>>, <<7379, 7379>>, <<8125, 8125>>, <<8127, 8129>>,
      <<8141, 8143>>, <<8157, 8159>>, <<8173, 8175>>, <<8189, 8190>>, <<8208, 8231>>, <<8240, 8286>>,
      <<8314, 8318>>, <<8330, 8334>>, <<8352, 8384>>, <<8448, 8449>>, <<8451, 8454>>, <<8456, 8457>>,
      <<8468, 8468>>, <<8470, 8472>>, <<8478, 8483>>, <<8485, 8485>>, <<8487, 8487>>, <<8489, 8489>>,
      <<8494, 8494>>, <<8506, 8507>>, <<8512, 8516>>, <<8522, 8525>>, <<8527, 8527>>, <<8586, 8587>>,
      <<8592, 9254>>, <<9280, 9290>>, <<9372, 9449>>, <<9472, 10101>>, <<10132, 11123>>, <<11126, 11157>>,
      <<11159, 11263>>, <<11493, 11498>>, <<11513, 11516>>, <<11518, 11519>>, <<11632, 11632>>, <<11776, 11822>>,
      <<11824, 11869>>, <<11904, 11929>>, <<11931, 12019>>, <<12032, 12245>>, <<12272, 12283>>, <<12289, 12292>>,
      <<12296, 12320>>, <<12336, 12336>>, <<12342, 12343>>, <<12349, 12351>>, <<12443, 12444>>, <<12448, 12448>>,
      <<12539, 12539>>, <<12688, 12689>>, <<12694, 12703>>, <<12736, 12771>>, <<12800, 12830>>, <<12842, 12871>>,
      <<12880, 12880>>, <<12896, 12927>>, <<12938, 12976>>, <<12992, 13311>>, <<19904, 19967>>, <<42128, 42182>>,
      <<42238, 42239>>, <<42509, 42511>>, <<42611, 42611>>, <<42622, 42622>>, <<42738, 42743>>, <<42752, 42774>>,
      <<42784, 42785>>, <<42889, 42890>>, <<43048, 43051>>, <<43062, 43065>>, <<43124, 43127>>, <<43214, 43215>>,
      <<43256, 43258>>, <<43260, 43260>>, <<43310, 43311>>, <<43359, 43359>>, <<43457, 43469>>, <<43486, 43487>>,
      <<43612, 43615>>, <<43639, 43641>>, <<43742, 43743>>, <<43760, 43761>>, <<43867, 43867>>, <<43882, 43883>>,
      <<44011, 44011>>, <<64297, 64297>>, <<64434, 64450>>, <<64830, 64847>>, <<64975, 64975>>, <<65020, 65023>>,
      <<65040, 65049>>, <<65072, 65106>>, <<65108, 65126>>, <<65128, 65131>>, <<65281, 65295>>, <<65306, 65312>>,
      <<65339, 65344>>, <<65371, 65381>>, <<65504, 65510>>, <<65512, 65518>>, <<65532, 65533>>, <<65792, 65794>>,
      <<65847, 65855>>, <<65913, 65929>>, <<65932, 65934>>, <<65936, 65948>>, <<65952, 65952>>, <<66000, 66044>>,
      <<66463, 66463>>, <<66512, 66512>>, <<66927, 66927>>, <<67671, 67671>>, <<67703, 67704>>, <<67871, 67871>>,
      <<67903, 67903>>, <<68176, 68184>>, <<68223, 68223>>, <<68296, 68296>>, <<68336, 68342>>, <<68409, 68415>>,
      <<68505, 68508>>, <<69293, 69293>>, <<69461, 69465>>, <<69510, 69513>>, <<69703, 69709>>, <<69819, 69820>>,
      <<69822, 69825>>, <<69952, 69955>>, <<70004, 70005>>, <<70085, 70088>>, <<70093, 70093>>, <<70107, 70107>>,
      <<70109, 70111>>, <<70200, 70205>>, <<70313, 70313>>, <<70731, 70735>>, <<70746, 70747>>, <<70749, 70749>>,
      <<70854, 70854>>, <<71105, 71127>>, <<71233, 71235>>, <<71264, 71276>>, <<71353, 71353>>, <<71484, 71487>>,
      <<71739, 71739>>, <<72004, 72006>>, <<72162, 72162>>, <<72255, 72262>>, <<72346, 72348>>, <<72350, 72354>>,
      <<72769, 72773>>, <<72816, 72817>>, <<73463, 73464>>, <<73685, 73713>>, <<73727, 73727>>, <<74864, 74868>>,
      <<77809, 77810>>, <<92782, 92783>>, <<92917, 92917>>, <<92983, 92991>>, <<92996, 92997>>, <<93847, 93850>>,
      <<94178, 94178>>, <<113820, 113820>>, <<113823, 113823>>, <<118608, 118723>>, <<118784, 119029>>, <<119040, 119078>>,
      <<119081, 119140>>, <<119146, 119148>>, <<119171, 119172>>, <<119180, 119209>>, <<119214, 119274>>, <<119296, 119361>>,
      <<119365, 119365>>, <<119552, 119638>>, <<120513, 120513>>, <<120539, 120539>>, <<120571, 120571>>, <<120597, 120597>>,
      <<120629, 120629>>, <<120655, 120655>>, <<120687, 120687>>, <<120713, 120713>>, <<120745, 120745>>, <<120771, 120771>>,
      <<120832, 121343>>, <<121399, 121402>>, <<121453, 121460>>, <<121462, 121475>>, <<121477, 121483>>, <<123215, 123215>>,
      <<123647, 123647>>, <<125278, 125279>>, <<126124, 126124>>, <<126128, 126128>>, <<126254, 126254>>, <<126704, 126705>>,
      <<126976, 127019>>, <<127024, 127123>>, <<127136, 127150>>, <<127153, 127167>>, <<127169, 127183>>, <<127185, 127221>>,
      <<127245, 127405>>, <<127462, 127490>>, <<127504, 127547>>, <<127552, 127560>>, <<127568, 127569>>, <<127584, 127589>>,
      <<127744, 128727>>, <<128733, 128748>>, <<128752, 128764>>, <<128768, 128883>>, <<128896, 128984>>, <<128992, 129003>>,
      <<129008, 129008>>, <<129024, 129035>>, <<129040, 129095>>, <<129104, 129113>>, <<129120, 129159>>, <<129168, 129197>>,
      <<129200, 129201>>, <<129280, 129619>>, <<129632, 129645>>, <<129648, 129652>>, <<129656, 129660>>, <<129664, 129670>>,
      <<129680, 129708>>, <<129712, 129722>>, <<129728, 129733>>, <<129744, 129753>>, <<129760, 129767>>, <<129776, 129782>>,
      <<129792, 129938>>, <<129940, 129994>> }

\* unicodedata.category(ch) starts with P or S
is_punct_or_symbol(cp) == \E r \in PunctOrSymbolRanges : r[1] <= cp /\ cp <= r[2]

is_word_like_protected_kind(kind) == kind \in {"url", "latin", "number"}

RECURSIVE normalize_pinyin(_)
\* pinyin.replace(U+0261, "g").replace("v", U+00FC).replace("V", U+00DC)
normalize_pinyin(pinyin) ==
    IF pinyin = <<>> THEN <<>>
    ELSE LET c == Head(pinyin)
             d == IF c = CP.ipag THEN CP.g
                  ELSE IF c = CP.v THEN CP.uuml
                  ELSE IF c = CP.V THEN CP.Uuml ELSE c
         IN  <<d>> \o normalize_pinyin(Tail(pinyin))

(***************************************************************************)
(* preprocess.py                                                           *)
(***************************************************************************)
\* one pattern letter of _URL_RE under re.IGNORECASE (U+017F and U+212A fold
\* to s and k)
MatchesLetter(cp, lower) ==
    \/ cp = lower
    \/ cp = lower - 32
    \/ (lower = CP.s /\ cp = 383)

\* the scan of one character class: text[j] stays in the span begun as `kind`
Continues(kind, cj) ==
    CASE kind = "url"    -> ~is_space(cj)
      [] kind = "han"    -> is_han(cj)
      [] kind = "space"  -> is_space(cj)
      [] kind = "latin"  -> is_ascii_letter(cj) \/ is_ascii_digit(cj) \/ cj \in {CP.under, CP.dash}
      [] kind = "number" -> is_ascii_digit(cj) \/ cj \in {CP.dot, CP.pct}
      [] OTHER           -> FALSE

RECURSIVE RunEnd(_, _, _)
\* while j < n and <text[j] continues the class>: j += 1
RunEnd(str, j, kind) ==
    IF j < Len(str) /\ Continues(kind, str[j + 1]) THEN RunEnd(str, j + 1, kind) ELSE j

\* a match whose body is made of letters, digits, underscore and dash only
URL_RE_match_word_body(str, i) ==
    LET n == Len(str)
        at(k) == str[k + 1]
        http == /\ i + 4 <= n
                /\ MatchesLetter(at(i), CP.h) /\ MatchesLetter(at(i + 1), CP.t)
                /\ MatchesLetter(at(i + 2), CP.t) /\ MatchesLetter(at(i + 3), CP.p)
        sep(k) == /\ k + 3 <= n
                  /\ at(k) = CP.colon /\ at(k + 1) = CP.slash /\ at(k + 2) = CP.slash
        body(k) == IF k < n /\ ~is_space(at(k)) THEN RunEnd(str, k, "latin") ELSE -1
    IN  IF ~http THEN -1
        ELSE IF i + 4 < n /\ MatchesLetter(at(i + 4), CP.s) /\ sep(i + 5) THEN body(i + 8)
        ELSE IF sep(i + 4) THEN body(i + 7)
        ELSE -1

\* _URL_RE.match(text, i): the end of the match of https?://[^\s]+ at i, or -1
URL_RE_match(str, i) ==
    LET n == Len(str)
        at(k) == str[k + 1]
        http == /\ i + 4 <= n
                /\ MatchesLetter(at(i), CP.h) /\ MatchesLetter(at(i + 1), CP.t)
                /\ MatchesLetter(at(i + 2), CP.t) /\ MatchesLetter(at(i + 3), CP.p)
        sep(k) == /\ k + 3 <= n
                  /\ at(k) = CP.colon /\ at(k + 1) = CP.slash /\ at(k + 2) = CP.slash
        body(k) == IF k < n /\ ~is_space(at(k)) THEN RunEnd(str, k, "url") ELSE -1
    IN  IF ~http THEN -1
        ELSE IF i + 4 < n /\ MatchesLetter(at(i + 4), CP.s) /\ sep(i + 5) THEN body(i + 8)
        ELSE IF sep(i + 4) THEN body(i + 7)
        ELSE -1

\* f"S{span_idx}"
span_id_of(span_idx) == "S" \o ToString(span_idx)

\* push_span with the guard start + 1 >= end: one-character spans are dropped
push_span_drops_single(acc, span_type, start, end, kind, str) ==
    IF start + 1 >= end THEN acc
    ELSE Append(acc, [span_id |-> span_id_of(Len(acc)), type |-> span_type, kind |-> kind,
                      start |-> start, end |-> end, text |-> Slice(str, start, end)])

\* push_span: appends nothing when start >= end
push_span(acc, span_type, start, end, kind, str) ==
    IF start >= end THEN acc
    ELSE Append(acc, [span_id |-> span_id_of(Len(acc)), type |-> span_type, kind |-> kind,
                      start |-> start, end |-> end, text |-> Slice(str, start, end)])

RECURSIVE split_spans_from(_, _, _)
\* the while loop of split_spans, from position i with the spans pushed so far
split_spans_from(str, i, acc) ==
    IF i >= Len(str) THEN acc
    ELSE LET m  == URL_RE_match(str, i)
             ch == str[i + 1]
         IN  IF m # -1 THEN split_spans_from(str, m, push_span(acc, "protected", i, m, "url", str))
             ELSE IF is_han(ch) THEN
                 LET j == RunEnd(str, i + 1, "han")
                 IN  split_spans_from(str, j, push_span(acc, "han", i, j, "none", str))
             ELSE IF is_space(ch) THEN
                 LET j == RunEnd(str, i + 1, "space")
                 IN  split_spans_from(str, j, push_span(acc, "protected", i, j, "space", str))
             ELSE IF is_ascii_letter(ch) THEN
                 LET j == RunEnd(str, i + 1, "latin")
                 IN  split_spans_from(str, j, push_span(acc, "protected", i, j, "latin", str))
             ELSE IF is_ascii_digit(ch) THEN
                 LET j == RunEnd(str, i + 1, "number")
                 IN  split_spans_from(str, j, push_span(acc, "protected", i, j, "number", str))
             ELSE LET kind == IF is_punct_or_symbol(ch) THEN "punct" ELSE "other"
                  IN  split_spans_from(str, i + 1, push_span(acc, "protected", i, i + 1, kind, str))

split_spans(str) == split_spans_from(str, 0, <<>>)

(***************************************************************************)
(* resources.py                                                            *)
(***************************************************************************)
\* PinyinResources.combined_word_pinyin: dict(word_pinyin) updated with lexicon_pinyin
combined_word_pinyin(r) ==
    [w \in DOMAIN r.word_pinyin \cup DOMAIN r.lexicon_pinyin |->
        IF w \in DOMAIN r.lexicon_pinyin THEN r.lexicon_pinyin[w] ELSE r.word_pinyin[w]]

(***************************************************************************)
(* core.py: tokenization                                                   *)
(***************************************************************************)
_ALLOWED_UPOS == {"ADJ", "ADP", "ADV", "AUX", "CCONJ", "DET", "INTJ", "NOUN", "NUM",
                  "PART", "PRON", "PROPN", "PUNCT", "SCONJ", "SYM", "VERB", "X"}

_ALLOWED_NER == {"O", "PER", "LOC", "ORG", "MISC"}

SetMax(S) == CHOOSE m \in S : \A k \in S : k <= m

\* first character -> length of the shortest word that begins with it
_build_min_len_by_first_char(words) ==
    LET keys == {w \in DOMAIN words : w # <<>>}
        SetMin(S) == CHOOSE m \in S : \A k \in S : m <= k
    IN  [fc \in {w[1] : w \in keys} |-> SetMin({Len(w) : w \in {k \in keys : k[1] = fc}})]

\* _build_max_len_by_first_char: first character -> length of the longest word
\* that begins with it (empty keys are skipped)
_build_max_len_by_first_char(words) ==
    LET keys == {w \in DOMAIN words : w # <<>>}
    IN  [fc \in {w[1] : w \in keys} |-> SetMax({Len(w) : w \in {k \in keys : k[1] = fc}})]

\* the for L in range(min(max_len, n - i), 0, -1) loop: the first (longest) L
\* whose candidate is a key of words, 0 when the loop ends without a match
fmm_match_len(str, i, words, max_len_by_fc) ==
    LET fc      == str[i + 1]
        max_len == IF fc \in DOMAIN max_len_by_fc THEN max_len_by_fc[fc] ELSE 1
        hits    == {L \in 1..Min(max_len, Len(str) - i) : Slice(str, i, i + L) \in DOMAIN words}
    IN  IF hits = {} THEN 0 ELSE SetMax(hits)

RECURSIVE segment_fmm_from(_, _, _, _)
segment_fmm_from(str, i, words, max_len_by_fc) ==
    IF i >= Len(str) THEN <<>>
    ELSE LET matched_len == fmm_match_len(str, i, words, max_len_by_fc)
         IN  IF matched_len = 0
             THEN <<<<str[i + 1]>>>> \o segment_fmm_from(str, i + 1, words, max_len_by_fc)
             ELSE <<Slice(str, i, i + matched_len)>>
                      \o segment_fmm_from(str, i + matched_len, words, max_len_by_fc)

\* _segment_fmm(text, words, max_len_by_fc): list of token texts
_segment_fmm(str, words, max_len_by_fc) == segment_fmm_from(str, 0, words, max_len_by_fc)

RECURSIVE tokens_at(_, _, _, _)
\* the "cursor" loop that turns token dicts of one span into Token objects;
\* parts[k] = [text, upos, xpos, ner]
tokens_at(sp, parts, idx, cursor) ==
    IF idx >= Len(parts) THEN <<>>
    ELSE LET t == parts[idx + 1]
             end == cursor + Len(t.text)
         IN  <<[span_id |-> sp.span_id, index_in_span |-> idx, start |-> cursor, end |-> end,
                text |-> t.text, upos |-> t.upos, xpos |-> t.xpos, ner |-> t.ner]>>
             \o tokens_at(sp, parts, idx + 1, end)

\* fallback_for_span / the body of the loop of _tokens_from_spans_fallback
fallback_for_span(sp, word_pinyin, max_len_by_fc) ==
    LET seg == _segment_fmm(sp.text, word_pinyin, max_len_by_fc)
    IN  tokens_at(sp, [k \in 1..Len(seg) |-> [text |-> seg[k], upos |-> "X", xpos |-> "UNK", ner |-> "O"]],
                  0, sp.start)

RECURSIVE fallback_over(_, _, _)
fallback_over(sps, word_pinyin, max_len_by_fc) ==
    IF sps = <<>> THEN <<>>
    ELSE (IF Head(sps).type # "han" THEN <<>>
          ELSE fallback_for_span(Head(sps), word_pinyin, max_len_by_fc))
         \o fallback_over(Tail(sps), word_pinyin, max_len_by_fc)

_tokens_from_spans_fallback(sps, word_pinyin) ==
    fallback_over(sps, word_pinyin, _build_max_len_by_first_char(word_pinyin))

(***************************************************************************)
(* The advisory tagging adapter.  opts.llm_adapter is                      *)
(*   [kind |-> "none"]            no adapter                               *)
(*   [kind |-> "no_method"]       segment_and_tag is not callable          *)
(*   [kind |-> "raises"]          the call raises                          *)
(*   [kind |-> "not_object"]      the response is not a dict               *)
(*   [kind |-> "missing_spans"]   response["spans"] is not a list          *)
(*   [kind |-> "ok", spans |-> <<entry, ...>>]                             *)
(* entry = [is_dict, span_id (Optional str), tokens (Optional list)], a    *)
(* token = [is_dict, text, upos, xpos, ner], each field Optional (None     *)
(* stands for a missing or non-string value).                              *)
(***************************************************************************)
RECURSIVE by_span_id_of(_, _)
\* by_span_id: the last well-formed entry of a span id wins
by_span_id_of(resp_spans, acc) ==
    IF resp_spans = <<>> THEN acc
    ELSE LET s == Head(resp_spans)
             IsDict(t) == t.is_dict
             upd == IF s.is_dict /\ s.span_id # None /\ s.tokens # None
                    THEN [sid \in DOMAIN acc \cup {s.span_id[1]} |->
                            IF sid = s.span_id[1] THEN SelectSeq(s.tokens[1], IsDict) ELSE acc[sid]]
                    ELSE acc
         IN  by_span_id_of(Tail(resp_spans), upd)

\* the validation of one response token without the check of xpos
llm_token_ok_any_xpos(t) ==
    /\ t.text # None /\ t.text[1] # <<>>
    /\ t.upos # None /\ t.upos[1] \in _ALLOWED_UPOS
    /\ t.ner # None /\ t.ner[1] \in _ALLOWED_NER

\* the validation checks of one response token (the body of "for t in llm_toks")
llm_token_ok(t) ==
    /\ t.text # None /\ t.text[1] # <<>>
    /\ t.upos # None /\ t.upos[1] \in _ALLOWED_UPOS
    /\ t.xpos # None /\ t.xpos[1] # ""
    /\ t.ner # None /\ t.ner[1] \in _ALLOWED_NER

RECURSIVE llm_texts(_)
\* texts: the texts appended before the first invalid token breaks the loop
llm_texts(llm_toks) ==
    IF llm_toks = <<>> \/ ~llm_token_ok(Head(llm_toks)) THEN <<>>
    ELSE <<Head(llm_toks).text[1]>> \o llm_texts(Tail(llm_toks))

\* llm_span_valid without the "".join(texts) == sp.text comparison
llm_span_valid_skips_join(sp, by_span_id) ==
    /\ sp.span_id \in DOMAIN by_span_id
    /\ by_span_id[sp.span_id] # <<>>
    /\ \A k \in 1..Len(by_span_id[sp.span_id]) : llm_token_ok(by_span_id[sp.span_id][k])

\* a span keeps its advisory tokens: not (not llm_toks), ok, "".join(texts) == sp.text
llm_span_valid(sp, by_span_id) ==
    /\ sp.span_id \in DOMAIN by_span_id
    /\ by_span_id[sp.span_id] # <<>>
    /\ \A k \in 1..Len(by_span_id[sp.span_id]) : llm_token_ok(by_span_id[sp.span_id][k])
    /\ Concat(llm_texts(by_span_id[sp.span_id])) = sp.text

llm_tokens_for_span(sp, by_span_id, word_pinyin, max_len_by_fc) ==
    IF ~llm_span_valid(sp, by_span_id) THEN fallback_for_span(sp, word_pinyin, max_len_by_fc)
    ELSE LET toks == by_span_id[sp.span_id]
         IN  tokens_at(sp, [k \in 1..Len(toks) |-> [text |-> toks[k].text[1], upos |-> toks[k].upos[1],
                                                    xpos |-> toks[k].xpos[1], ner |-> toks[k].ner[1]]],
                       0, sp.start)

RECURSIVE llm_over(_, _, _, _)
\* for sp in spans: ... of _tokens_from_spans_llm_or_fallback;
\* returns [tokens, invalid_spans]
llm_over(sps, by_span_id, word_pinyin, max_len_by_fc) ==
    IF sps = <<>> THEN [tokens |-> <<>>, invalid_spans |-> <<>>]
    ELSE LET sp   == Head(sps)
             rest == llm_over(Tail(sps), by_span_id, word_pinyin, max_len_by_fc)
         IN  IF sp.type # "han" THEN rest
             ELSE [tokens |-> llm_tokens_for_span(sp, by_span_id, word_pinyin, max_len_by_fc) \o rest.tokens,
                   invalid_spans |-> (IF llm_span_valid(sp, by_span_id) THEN <<>> ELSE <<sp.span_id>>)
                                     \o rest.invalid_spans]

EmptyMap == [k \in {} |-> <<>>]

\* a response whose "spans" is not a list read as an empty list of spans
_tokens_from_spans_llm_spans_or_empty(sps, word_pinyin, llm_adapter) ==
    LET IsHan(sp) == sp.type = "han"
        han_spans == SelectSeq(sps, IsHan)
        fb(meta)  == [tokens |-> _tokens_from_spans_fallback(sps, word_pinyin), meta |-> meta]
        m(err)    == [used |-> TRUE, error |-> err, invalid_spans |-> None, warnings |-> None]
    IN  IF llm_adapter.kind = "none" \/ han_spans = <<>>
        THEN fb([used |-> FALSE, error |-> None, invalid_spans |-> None, warnings |-> None])
        ELSE CASE llm_adapter.kind = "no_method"     -> fb(m(Some("llm_adapter_missing_segment_and_tag")))
               [] llm_adapter.kind = "raises"        -> fb(m(Some("llm_segment_and_tag_exception")))
               [] llm_adapter.kind = "not_object"    -> fb(m(Some("llm_response_not_object")))
               [] OTHER ->
                    LET resp == IF llm_adapter.kind = "missing_spans" THEN <<>> ELSE llm_adapter.spans
                        r == llm_over(sps, by_span_id_of(resp, EmptyMap), word_pinyin,
                                      _build_max_len_by_first_char(word_pinyin))
                    IN  [tokens |-> r.tokens,
                         meta |-> [used |-> TRUE, error |-> None,
                                   invalid_spans |-> Some(r.invalid_spans),
                                   warnings |-> Some(<<>>)]]

\* the number of times _tokens_from_spans_llm_or_fallback executes
\* segment_fn(request)
segment_and_tag_calls(sps, llm_adapter) ==
    IF llm_adapter.kind = "none" \/ \A k \in 1..Len(sps) : sps[k].type # "han" THEN 0
    ELSE IF llm_adapter.kind = "no_method" THEN 0
    ELSE 1

\* _tokens_from_spans_llm_or_fallback: [tokens, meta]
_tokens_from_spans_llm_or_fallback(sps, word_pinyin, llm_adapter) ==
    LET IsHan(sp) == sp.type = "han"
        han_spans == SelectSeq(sps, IsHan)
        fb(meta)  == [tokens |-> _tokens_from_spans_fallback(sps, word_pinyin), meta |-> meta]
        m(err)    == [used |-> TRUE, error |-> err, invalid_spans |-> None, warnings |-> None]
    IN  IF llm_adapter.kind = "none" \/ han_spans = <<>>
        THEN fb([used |-> FALSE, error |-> None, invalid_spans |-> None, warnings |-> None])
        ELSE CASE llm_adapter.kind = "no_method"     -> fb(m(Some("llm_adapter_missing_segment_and_tag")))
               [] llm_adapter.kind = "raises"        -> fb(m(Some("llm_segment_and_tag_exception")))
               [] llm_adapter.kind = "not_object"    -> fb(m(Some("llm_response_not_object")))
               [] llm_adapter.kind = "missing_spans" -> fb(m(Some("llm_response_missing_spans")))
               [] OTHER ->
                    LET r == llm_over(sps, by_span_id_of(llm_adapter.spans, EmptyMap), word_pinyin,
                                      _build_max_len_by_first_char(word_pinyin))
                    IN  [tokens |-> r.tokens,
                         meta |-> [used |-> TRUE, error |-> None,
                                   invalid_spans |-> Some(r.invalid_spans),
                                   warnings |-> Some(llm_adapter.warnings)]]

(***************************************************************************)
(* core.py: per-character resolution                                       *)
(*                                                                         *)
(* res.char_base is a map code point -> list of candidates;                *)
(* res.polyphone_disambig a map code point -> [default (Optional str),     *)
(* candidates, contexts], contexts a map "pos=..|ner=.." -> [best          *)
(* (Optional str), p, p2, n]; a numeric field is None when absent, else    *)
(* Some([ok, v]) with ok = FALSE for a value int()/float() rejects.        *)
(* res.disambig_thresholds is a map over a subset of {"min_support",       *)
(* "min_prob", "min_margin"}.                                              *)
(***************************************************************************)
RECURSIVE split_ws(_, _)
\* str.split(): the maximal runs of non-whitespace (cur is the run being read)
split_ws(str, cur) ==
    IF str = <<>> THEN (IF cur = <<>> THEN <<>> ELSE <<cur>>)
    ELSE IF is_space(Head(str))
         THEN (IF cur = <<>> THEN <<>> ELSE <<cur>>) \o split_ws(Tail(str), <<>>)
         ELSE split_ws(Tail(str), Append(cur, Head(str)))

RECURSIVE remove_char(_, _)
\* str.replace(c, "")
remove_char(str, c) ==
    IF str = <<>> THEN <<>>
    ELSE (IF Head(str) = c THEN <<>> ELSE <<Head(str)>>) \o remove_char(Tail(str), c)

\* normalize_word_pinyin: remove the separator spaces, then normalize_pinyin
normalize_word_pinyin(pinyin) == normalize_pinyin(remove_char(pinyin, CP.sp))

\* _char_candidates
_char_candidates(char_base, ch) ==
    IF ch \in DOMAIN char_base /\ char_base[ch] # <<>> THEN char_base[ch] ELSE <<>>

\* thresholds.get(key, default)
threshold_get(thresholds, key, default) ==
    IF key \in DOMAIN thresholds THEN thresholds[key] ELSE default

\* f"pos={upos}|ner={ner}"
context_key(upos, ner) == "pos=" \o upos \o "|ner=" \o ner

(***************************************************************************)
(* Python floats.  A number of the data is held in thousandths (0.85 is    *)
(* 850); float(x) is the IEEE 754 double nearest to x, held here by its    *)
(* sign and the bits of its magnitude in fixed point: FloatIntBits bits    *)
(* before the binary point and FloatFracBits after it, most significant    *)
(* first.  The numbers held have a magnitude below 2^31 / 1000 < 2^22, so  *)
(* their doubles, and every sum or difference of two of them (below 2^23,  *)
(* a multiple of 2^-62), fit exactly.                                      *)
(***************************************************************************)
FloatIntBits == 23

FloatFracBits == 63

FloatBits == FloatIntBits + FloatFracBits

RECURSIVE pow2_mod_1000(_)
\* 2^n % 1000
pow2_mod_1000(n) == IF n = 0 THEN 1 ELSE (2 * pow2_mod_1000(n - 1)) % 1000

\* <<2^0 % 1000, ..., 2^FloatFracBits % 1000>>
Pow2Mod1000 == [i \in 1..(FloatFracBits + 1) |-> pow2_mod_1000(i - 1)]

\* the binary expansion of k / 1000 for k >= 0, cut after FloatFracBits
\* fractional bits; sticky tells whether anything was cut off
exact_thousandths(k) ==
    LET q == k \div 1000
        r == k % 1000
        rem(i) == (r * Pow2Mod1000[i + 1]) % 1000      \* (r * 2^i) % 1000
    IN  [bits |-> [i \in 1..FloatBits |->
                     IF i <= FloatIntBits THEN (q \div 2^(FloatIntBits - i)) % 2
                     ELSE IF 2 * rem(i - FloatIntBits - 1) >= 1000 THEN 1 ELSE 0],
         sticky |-> rem(FloatFracBits) # 0]

\* round to nearest, ties to even, to 53 significant bits
round_to_double(bits, sticky) ==
    LET ones == {i \in 1..FloatBits : bits[i] = 1}
    IN  IF ones = {} THEN bits
        ELSE LET lead  == CHOOSE i \in ones : \A j \in ones : i <= j
                 last  == lead + 52
             IN  IF last >= FloatBits THEN bits
                 ELSE LET guard == bits[last + 1]
                          tail  == sticky \/ \E i \in (last + 2)..FloatBits : bits[i] = 1
                          up    == guard = 1 /\ (tail \/ bits[last] = 1)
                          zeros == {i \in 1..last : bits[i] = 0}
                          j     == CHOOSE i \in zeros : \A m \in zeros : m <= i
                      IN  IF up
                          THEN [i \in 1..FloatBits |->
                                   IF i < j THEN bits[i] ELSE IF i = j THEN 1 ELSE 0]
                          ELSE [i \in 1..FloatBits |-> IF i <= last THEN bits[i] ELSE 0]

float_zero == [i \in 1..FloatBits |-> 0]

\* float('inf') among the numbers held in thousandths (and int counts)
FloatInf == 2147483647

\* float(x) for the number x of k thousandths
float_of(k) ==
    LET e == exact_thousandths(IF k < 0 THEN -k ELSE k)
    IN  [neg |-> k < 0, mag |-> round_to_double(e.bits, e.sticky)]

\* a >= b for two magnitudes
mag_ge(a, b) ==
    LET diff == {i \in 1..FloatBits : a[i] # b[i]}
    IN  diff = {} \/ a[CHOOSE i \in diff : \A j \in diff : i <= j] = 1

\* the carry (sign = 1) or borrow (sign = -1) into bit i of a + sign * b: the
\* nearest lower bit that does not pass a carry on decides
mag_carry_into(a, b, sign, i) ==
    LET decides(j) == IF sign = 1 THEN a[j] = b[j] ELSE a[j] # b[j]
        lower == {j \in (i + 1)..FloatBits : decides(j)}
    IN  IF lower = {} THEN 0
        ELSE LET j == CHOOSE m \in lower : \A n \in lower : m <= n
             IN  IF sign = 1 THEN a[j] ELSE b[j]

\* a + b (sign = 1) or a - b for a >= b (sign = -1), exactly
mag_add(a, b, sign) ==
    [i \in 1..FloatBits |-> (a[i] + b[i] + mag_carry_into(a, b, sign, i)) % 2]

\* x - y for two floats, rounded
float_sub(x, y) ==
    IF x.neg # y.neg
    THEN [neg |-> x.neg, mag |-> round_to_double(mag_add(x.mag, y.mag, 1), FALSE)]
    ELSE IF mag_ge(x.mag, y.mag)
    THEN [neg |-> x.neg, mag |-> round_to_double(mag_add(x.mag, y.mag, -1), FALSE)]
    ELSE [neg |-> ~x.neg, mag |-> round_to_double(mag_add(y.mag, x.mag, -1), FALSE)]

\* x >= y for two floats
float_ge(x, y) ==
    IF x.mag = float_zero /\ y.mag = float_zero THEN TRUE
    ELSE IF x.neg # y.neg THEN y.neg
    ELSE IF x.neg THEN mag_ge(y.mag, x.mag)
    ELSE mag_ge(x.mag, y.mag)

\* (p_f - p2_f) >= float(min_margin) on finite operands
float_margin_reached(p_f, p2_f, min_margin) ==
    float_ge(float_sub(float_of(p_f), float_of(p2_f)), float_of(min_margin))

\* float_margin_reached tabulated for the probabilities and margins that the
\* tables and thresholds of the specifications use
TabulatedThousandths == {0, 150, 250, 750, 800, 850, 950, 1000}

MarginTable ==
    [t \in TabulatedThousandths \X TabulatedThousandths \X {150, 250} |->
        float_margin_reached(t[1], t[2], t[3])] @@ <<>>

\* the entry of the table for a tabulated triple, the computation otherwise
margin_lookup(table, p_f, p2_f, min_margin) ==
    IF <<p_f, p2_f, min_margin>> \in DOMAIN table
    THEN table[<<p_f, p2_f, min_margin>>]
    ELSE float_margin_reached(p_f, p2_f, min_margin)

\* (p_f - p2_f) >= float(min_margin); inf - inf is nan and -inf is below
\* every threshold
margin_reached(p_f, p2_f, min_margin) ==
    IF p2_f = FloatInf THEN FALSE
    ELSE IF p_f = FloatInf THEN TRUE
    ELSE margin_lookup(MarginTable, p_f, p2_f, min_margin)

\* the try/except around int(n), float(p), float(p2): a field that raises
\* TypeError or ValueError resets all three; int(float('inf')) raises
\* OverflowError, which is not caught
parse_ctx_numbers(ctx) ==
    LET bad(f) == f # None /\ ~f[1].ok
        val(f) == IF f = None THEN 0 ELSE f[1].v
    IN  IF ~bad(ctx.n) /\ val(ctx.n) = FloatInf
        THEN [n_int |-> 0, p_f |-> 0, p2_f |-> 0, error |-> Some("OverflowError")]
        ELSE IF bad(ctx.n) \/ bad(ctx.p) \/ bad(ctx.p2)
        THEN [n_int |-> 0, p_f |-> 0, p2_f |-> 0, error |-> None]
        ELSE [n_int |-> val(ctx.n), p_f |-> val(ctx.p), p2_f |-> val(ctx.p2), error |-> None]

\* the confidence test of _polyphone_pick
confident_enough(nums, thresholds) ==
    /\ nums.n_int >= threshold_get(thresholds, "min_support", 5)
    /\ nums.p_f >= threshold_get(thresholds, "min_prob", 850)
    /\ margin_reached(nums.p_f, nums.p2_f, threshold_get(thresholds, "min_margin", 150))

\* the exception that leaves _polyphone_pick, if any: that of the conversions
\* of a context entry with a non-empty best
_polyphone_pick_error(disambig, ch, upos, ner) ==
    IF ch \notin DOMAIN disambig THEN None
    ELSE IF context_key(upos, ner) \notin DOMAIN disambig[ch].contexts THEN None
    ELSE LET ctx == disambig[ch].contexts[context_key(upos, ner)]
         IN  IF ctx.best = None \/ ctx.best[1] = <<>> THEN None
             ELSE parse_ctx_numbers(ctx).error

\* _polyphone_pick when it returns: [chosen, confidence, confident]
_polyphone_pick(disambig, thresholds, ch, upos, ner) ==
    LET nothing == [chosen |-> <<>>, confidence |-> None, confident |-> FALSE]
    IN  IF ch \notin DOMAIN disambig THEN nothing
        ELSE LET item == disambig[ch]
                 key  == context_key(upos, ner)
                 dflt == IF item.default # None /\ item.default[1] # <<>>
                         THEN [nothing EXCEPT !.chosen = item.default[1]]
                         ELSE IF item.candidates # <<>>
                         THEN [nothing EXCEPT !.chosen = item.candidates[1]]
                         ELSE nothing
             IN  IF key \notin DOMAIN item.contexts THEN dflt
                 ELSE LET ctx == item.contexts[key]
                      IN  IF ctx.best = None \/ ctx.best[1] = <<>> THEN dflt
                          ELSE LET nums == parse_ctx_numbers(ctx)
                               IN  [chosen |-> ctx.best[1],
                                    confidence |-> IF ctx.p # None THEN Some(nums.p_f) ELSE None,
                                    confident |-> confident_enough(nums, thresholds)]

\* a decision whose offset counts from 1
CharDecision_offset_from_one(char, offset, candidates, chosen, resolved_by, confidence, needs_review, notes) ==
    [char |-> char, offset_in_token |-> offset + 1, candidates |-> candidates, chosen |-> chosen,
     resolved_by |-> resolved_by, confidence |-> confidence, rule_id |-> None,
     needs_review |-> needs_review, conflict |-> FALSE, notes |-> notes]

\* CharDecision(...) with the dataclass defaults
CharDecision(char, offset, candidates, chosen, resolved_by, confidence, needs_review, notes) ==
    [char |-> char, offset_in_token |-> offset, candidates |-> candidates, chosen |-> chosen,
     resolved_by |-> resolved_by, confidence |-> confidence, rule_id |-> None,
     needs_review |-> needs_review, conflict |-> FALSE, notes |-> notes]

\* the decision of a polyphone from the result of _polyphone_pick
polyphone_decision(ch, i, cands, pick) ==
    CharDecision(ch, i, cands,
                 IF pick.chosen # <<>> THEN pick.chosen ELSE cands[1],
                 IF pick.chosen # <<>> THEN "polyphone_disambig" ELSE "fallback",
                 pick.confidence, ~pick.confident,
                 IF pick.confident THEN <<>> ELSE <<<<"low_confidence_or_low_support">>>>)

\* the body of the per-character loop of _analyze_token
analyze_char(tok, i, r) ==
    LET ch    == tok.text[i + 1]
        cands == _char_candidates(r.char_base, ch)
    IN  IF cands = <<>>
        THEN CharDecision(ch, i, <<>>, <<ch>>, "unknown", Some(0), TRUE, <<<<"char_not_in_char_base">>>>)
        ELSE IF Len(cands) = 1
        THEN CharDecision(ch, i, cands, cands[1], "char_base", Some(1000), FALSE, <<>>)
        ELSE polyphone_decision(ch, i, cands,
                                _polyphone_pick(r.polyphone_disambig, r.disambig_thresholds, ch,
                                                tok.upos, tok.ner))

\* the exception that leaves the per-character loop body, if any
analyze_char_error(tok, i, r) ==
    LET ch == tok.text[i + 1]
    IN  IF Len(_char_candidates(r.char_base, ch)) < 2 THEN None
        ELSE _polyphone_pick_error(r.polyphone_disambig, ch, tok.upos, tok.ner)

\* the exception that leaves the per-character loop, if any: that of the
\* first character that raises
analyze_chars_error(tok, r) ==
    LET raising == {i \in 0..(Len(tok.text) - 1) : analyze_char_error(tok, i, r) # None}
    IN  IF raising = {} THEN None
        ELSE analyze_char_error(tok, CHOOSE i \in raising : \A j \in raising : i <= j, r)

\* _analyze_token that takes the word path whenever there are enough syllables
_analyze_token_enough_syllables(tok, word_pinyin, r) ==
    LET has_entry == tok.text \in DOMAIN word_pinyin
        syllables == IF has_entry THEN split_ws(word_pinyin[tok.text], <<>>) ELSE <<>>
        n         == Len(tok.text)
    IN  IF has_entry /\ Len(syllables) >= n
        THEN [pinyin |-> normalize_word_pinyin(word_pinyin[tok.text]),
              decisions |-> [k \in 1..n |->
                  CharDecision(tok.text[k], k - 1, <<syllables[k]>>, syllables[k], "word",
                               Some(1000), FALSE, <<>>)],
              warnings |-> <<>>,
              error |-> None]
        ELSE LET decisions2 == [k \in 1..n |-> analyze_char(tok, k - 1, r)]
             IN  [pinyin |-> Concat([k \in 1..n |-> decisions2[k].chosen]),
                  decisions |-> decisions2,
                  warnings |-> IF has_entry
                               THEN <<[type |-> "word_pinyin_alignment_mismatch", token |-> tok.text,
                                       syllables |-> Len(syllables), chars |-> n]>>
                               ELSE <<>>,
                  error |-> analyze_chars_error(tok, r)]

\* _analyze_token: [pinyin, decisions, warnings]
_analyze_token(tok, word_pinyin, r) ==
    LET has_entry == tok.text \in DOMAIN word_pinyin
        syllables == IF has_entry THEN split_ws(word_pinyin[tok.text], <<>>) ELSE <<>>
        n         == Len(tok.text)
    IN  IF has_entry /\ Len(syllables) = n
        THEN [pinyin |-> normalize_word_pinyin(word_pinyin[tok.text]),
              decisions |-> [k \in 1..n |->
                  CharDecision(tok.text[k], k - 1, <<syllables[k]>>, syllables[k], "word",
                               Some(1000), FALSE, <<>>)],
              warnings |-> <<>>,
              error |-> None]
        ELSE LET decisions2 == [k \in 1..n |-> analyze_char(tok, k - 1, r)]
             IN  [pinyin |-> Concat([k \in 1..n |-> decisions2[k].chosen]),
                  decisions |-> decisions2,
                  warnings |-> IF has_entry
                               THEN <<[type |-> "word_pinyin_alignment_mismatch", token |-> tok.text,
                                       syllables |-> Len(syllables), chars |-> n]>>
                               ELSE <<>>,
                  error |-> analyze_chars_error(tok, r)]

(***************************************************************************)
(* rules.py                                                                *)
(*                                                                         *)
(* A rule is [id (Optional str), priority (Optional int: None for a        *)
(* missing or non-integer priority), match, target, choose (Optional       *)
(* str)]; match is a map over a subset of {"self", "prev", "next"} to      *)
(* parts, a part a map over a subset of {"text", "text_in", "upos_in",     *)
(* "regex", "xpos_in", "ner_in", "contains"}; target is None or              *)
(* Some([char (Optional str), occurrence]), occurrence is                  *)
(* [all |-> TRUE, n |-> 0] for "all" and [all |-> FALSE, n |-> k] for the  *)
(* integer k.  A "regex" is a str over the patterns of re made of literal  *)
(* characters, ".", "^", "$" and the postfix repetitions "*", "+", "?" of  *)
(* a literal or "."; groups, classes, alternation, escapes and counted     *)
(* repetition are outside the modelled patterns.                           *)
(***************************************************************************)
RECURSIVE StrLess(_, _)
\* a < b for two str (code point order)
StrLess(a, b) ==
    IF b = <<>> THEN FALSE
    ELSE IF a = <<>> THEN TRUE
    ELSE IF Head(a) # Head(b) THEN Head(a) < Head(b)
    ELSE StrLess(Tail(a), Tail(b))

\* needle in haystack for two str
IsSubstr(needle, hay) ==
    \E k \in 0..(Len(hay) - Len(needle)) : Slice(hay, k, k + Len(needle)) = needle

SeqToSet(seq) == {seq[k] : k \in 1..Len(seq)}

\* the pattern character c matches the text character ch: "." is any
\* character but a newline
re_atom_matches(c, ch) == IF c = CP.dot THEN ch # CP.nl ELSE c = ch

RECURSIVE re_match_here(_, _, _)
\* the pattern rx matches txt from offset pos on
re_match_here(rx, txt, pos) ==
    IF rx = <<>> THEN TRUE
    ELSE IF Head(rx) = CP.caret THEN pos = 0 /\ re_match_here(Tail(rx), txt, pos)
    ELSE IF Head(rx) = CP.dollar
    THEN /\ \/ pos = Len(txt)
            \/ (pos = Len(txt) - 1 /\ txt[pos + 1] = CP.nl)
         /\ re_match_here(Tail(rx), txt, pos)
    ELSE LET c      == Head(rx)
             rep    == IF Len(rx) >= 2 /\ rx[2] \in {CP.star, CP.plus, CP.qmark} THEN rx[2] ELSE 0
             rest   == IF rep = 0 THEN Tail(rx) ELSE Tail(Tail(rx))
             least  == IF rep \in {0, CP.plus} THEN 1 ELSE 0
             most   == IF rep \in {0, CP.qmark} THEN 1 ELSE Len(txt) - pos
         IN  \E n \in least..most :
                 /\ pos + n <= Len(txt)
                 /\ \A k \in 1..n : re_atom_matches(c, txt[pos + k])
                 /\ re_match_here(rest, txt, pos + n)

\* re.search(rx, txt) finds a match
re_search(rx, txt) == \E pos \in 0..Len(txt) : re_match_here(rx, txt, pos)

\* _match_part
_match_part(part, tok) ==
    /\ ("text" \in DOMAIN part => part["text"] = tok.text)
    /\ ("text_in" \in DOMAIN part => tok.text \in SeqToSet(part["text_in"]))
    /\ ("regex" \in DOMAIN part => re_search(part["regex"], tok.text))
    /\ ("upos_in" \in DOMAIN part => tok.upos \in SeqToSet(part["upos_in"]))
    /\ ("xpos_in" \in DOMAIN part => tok.xpos \in SeqToSet(part["xpos_in"]))
    /\ ("ner_in" \in DOMAIN part => tok.ner \in SeqToSet(part["ner_in"]))
    /\ ("contains" \in DOMAIN part =>
            \A ch \in SeqToSet(part["contains"]) : ch # <<>> => IsSubstr(ch, tok.text))

\* rule_matches; prev_tok and next_tok are Optional tokens
rule_matches(rule, tok, prev_tok, next_tok) ==
    /\ ("self" \in DOMAIN rule.match => _match_part(rule.match["self"], tok))
    /\ ("prev" \in DOMAIN rule.match => prev_tok # None /\ _match_part(rule.match["prev"], prev_tok[1]))
    /\ ("next" \in DOMAIN rule.match => next_tok # None /\ _match_part(rule.match["next"], next_tok[1]))

\* a priority that is not a plain int: <<"str", s>>, <<"float", thousandths>>
\* or <<"bool", b>>; an int n is Some(n), a missing priority is None
NotInt(kind, v) == <<kind, v>>

\* prio_int of sort_rules: int(prio) if isinstance(prio, int) else 0; a bool
\* is an instance of int, int(True) = 1
prio_int(priority) ==
    IF Len(priority) = 1 THEN priority[1]
    ELSE IF Len(priority) = 2 /\ priority[1] = "bool" THEN (IF priority[2] THEN 1 ELSE 0)
    ELSE 0

\* a key that compares the priorities only
sort_key_less_priority_only(a, b) ==
    LET prio(r) == prio_int(r.priority)
    IN  -prio(a) < -prio(b)

\* key(r) of sort_rules, compared: key(a) < key(b)
sort_key_less(a, b) ==
    LET prio(r) == prio_int(r.priority)
        rid(r)  == IF r.id # None THEN r.id[1] ELSE <<>>
    IN  \/ -prio(a) < -prio(b)
        \/ (-prio(a) = -prio(b) /\ StrLess(rid(a), rid(b)))

RECURSIVE insert_sorted(_, _)
\* insertion behind every element that is not greater (sorted() is stable)
insert_sorted(sorted, r) ==
    IF sorted = <<>> THEN <<r>>
    ELSE IF sort_key_less(r, Head(sorted)) THEN <<r>> \o sorted
    ELSE <<Head(sorted)>> \o insert_sorted(Tail(sorted), r)

RECURSIVE sort_rules_acc(_, _)
sort_rules_acc(rules, acc) ==
    IF rules = <<>> THEN acc ELSE sort_rules_acc(Tail(rules), insert_sorted(acc, Head(rules)))

\* sort_rules: sorted(rules, key=key)
sort_rules(rules) == sort_rules_acc(rules, <<>>)

(***************************************************************************)
(* core.py: the override pass                                              *)
(***************************************************************************)
RECURSIVE group_by_span(_, _)
\* span_to_tokens.values(): the token lists of the spans, in order of first token
group_by_span(toks, acc) ==
    IF toks = <<>> THEN acc
    ELSE LET t == Head(toks)
             hit == {k \in 1..Len(acc) : acc[k][1].span_id = t.span_id}
         IN  group_by_span(Tail(toks),
                 IF hit = {} THEN Append(acc, <<t>>)
                 ELSE LET k == CHOOSE j \in hit : TRUE
                      IN  [acc EXCEPT ![k] = Append(@, t)])

\* apply_at that records an applied entry for a reaffirmation too
apply_at_records_reaffirmation(st, tok, pos, rid, choose, target_char, occurrence) ==
    LET key == <<tok.start, tok.end>>
        dec == st.decisions[key][pos + 1]
        put(d) == [st.decisions EXCEPT ![key][pos + 1] = d]
    IN  IF <<dec.char>> # target_char THEN st
        ELSE IF dec.chosen = choose
        THEN [st EXCEPT !.decisions =
                 put([dec EXCEPT !.notes = Append(@, <<"override_reaffirm", rid>>),
                                 !.resolved_by = "override",
                                 !.rule_id = Some(rid)]),
                        !.applied = Append(@,
                            [rule_id |-> rid, token_start |-> tok.start, token_end |-> tok.end,
                             token_text |-> tok.text, target_char |-> target_char,
                             occurrence |-> occurrence, choose |-> choose])]
        ELSE IF dec.resolved_by = "override" /\ dec.rule_id # None /\ dec.rule_id[1] # <<>>
                /\ dec.rule_id[1] # rid
        THEN [st EXCEPT !.decisions = put([dec EXCEPT !.conflict = TRUE]),
                        !.conflicts = Append(@,
                            [type |-> "override_conflict", token |-> tok.text,
                             token_start |-> tok.start, token_end |-> tok.end,
                             char |-> target_char, offset_in_token |-> pos,
                             existing_rule_id |-> dec.rule_id[1], existing_choose |-> dec.chosen,
                             new_rule_id |-> rid, new_choose |-> choose])]
        ELSE [st EXCEPT !.decisions =
                            put([dec EXCEPT !.chosen = choose, !.resolved_by = "override",
                                            !.rule_id = Some(rid), !.needs_review = FALSE]),
                        !.applied = Append(@,
                            [rule_id |-> rid, token_start |-> tok.start, token_end |-> tok.end,
                             token_text |-> tok.text, target_char |-> target_char,
                             occurrence |-> occurrence, choose |-> choose])]

\* apply_at(pos) for the rule (rid, choose, target_char, occurrence) at token tok;
\* st = [decisions, applied, conflicts]
apply_at(st, tok, pos, rid, choose, target_char, occurrence) ==
    LET key == <<tok.start, tok.end>>
        dec == st.decisions[key][pos + 1]
        put(d) == [st.decisions EXCEPT ![key][pos + 1] = d]
    IN  IF <<dec.char>> # target_char THEN st
        ELSE IF dec.chosen = choose
        THEN [st EXCEPT !.decisions =
                 put([dec EXCEPT !.notes = Append(@, <<"override_reaffirm", rid>>),
                                 !.resolved_by = "override",
                                 !.rule_id = Some(rid)])]
        ELSE IF dec.resolved_by = "override" /\ dec.rule_id # None /\ dec.rule_id[1] # <<>>
                /\ dec.rule_id[1] # rid
        THEN [st EXCEPT !.decisions = put([dec EXCEPT !.conflict = TRUE]),
                        !.conflicts = Append(@,
                            [type |-> "override_conflict", token |-> tok.text,
                             token_start |-> tok.start, token_end |-> tok.end,
                             char |-> target_char, offset_in_token |-> pos,
                             existing_rule_id |-> dec.rule_id[1], existing_choose |-> dec.chosen,
                             new_rule_id |-> rid, new_choose |-> choose])]
        ELSE [st EXCEPT !.decisions =
                            put([dec EXCEPT !.chosen = choose, !.resolved_by = "override",
                                            !.rule_id = Some(rid), !.needs_review = FALSE]),
                        !.applied = Append(@,
                            [rule_id |-> rid, token_start |-> tok.start, token_end |-> tok.end,
                             token_text |-> tok.text, target_char |-> target_char,
                             occurrence |-> occurrence, choose |-> choose])]

RECURSIVE apply_at_all(_, _, _, _, _, _, _)
\* for pos in positions: apply_at(pos)
apply_at_all(st, tok, positions, rid, choose, target_char, occurrence) ==
    IF positions = <<>> THEN st
    ELSE apply_at_all(apply_at(st, tok, Head(positions), rid, choose, target_char, occurrence),
                      tok, Tail(positions), rid, choose, target_char, occurrence)

\* apply_rule_at_token with the token itself standing in for a neighbour that
\* the span does not have
apply_rule_at_token_own_neighbour(st, rule, span_tokens, i) ==
    LET tok         == span_tokens[i + 1]
        rid         == rule.id[1]
        choose      == normalize_pinyin(rule.choose[1])
        target_char == rule.target[1].char[1]
        occurrence  == rule.target[1].occurrence
        prev_tok    == IF i > 0 THEN Some(span_tokens[i]) ELSE Some(tok)
        next_tok    == IF i + 1 < Len(span_tokens) THEN Some(span_tokens[i + 2]) ELSE Some(tok)
        key         == <<tok.start, tok.end>>
    IN  IF ~IsSubstr(target_char, tok.text) THEN st
        ELSE IF ~rule_matches(rule, tok, prev_tok, next_tok) THEN st
        ELSE IF key \notin DOMAIN st.decisions \/ st.decisions[key] = <<>> THEN st
        ELSE LET decisions == st.decisions[key]
                 IsTarget(d) == <<d.char>> = target_char
                 hits == SelectSeq(decisions, IsTarget)
                 positions == [k \in 1..Len(hits) |-> hits[k].offset_in_token]
             IN  IF positions = <<>> THEN st
                 ELSE IF occurrence.all
                 THEN apply_at_all(st, tok, positions, rid, choose, target_char, occurrence)
                 ELSE IF occurrence.n >= 1 /\ occurrence.n <= Len(positions)
                 THEN apply_at(st, tok, positions[occurrence.n], rid, choose, target_char, occurrence)
                 ELSE st

\* apply_rule_at_token with an occurrence beyond the last position taken as the
\* last position
apply_rule_at_token_clamped_occurrence(st, rule, span_tokens, i) ==
    LET tok         == span_tokens[i + 1]
        rid         == rule.id[1]
        choose      == normalize_pinyin(rule.choose[1])
        target_char == rule.target[1].char[1]
        occurrence  == rule.target[1].occurrence
        prev_tok    == IF i > 0 THEN Some(span_tokens[i]) ELSE None
        next_tok    == IF i + 1 < Len(span_tokens) THEN Some(span_tokens[i + 2]) ELSE None
        key         == <<tok.start, tok.end>>
    IN  IF ~IsSubstr(target_char, tok.text) THEN st
        ELSE IF ~rule_matches(rule, tok, prev_tok, next_tok) THEN st
        ELSE IF key \notin DOMAIN st.decisions \/ st.decisions[key] = <<>> THEN st
        ELSE LET decisions == st.decisions[key]
                 IsTarget(d) == <<d.char>> = target_char
                 hits == SelectSeq(decisions, IsTarget)
                 positions == [k \in 1..Len(hits) |-> hits[k].offset_in_token]
             IN  IF positions = <<>> THEN st
                 ELSE IF occurrence.all
                 THEN apply_at_all(st, tok, positions, rid, choose, target_char, occurrence)
                 ELSE IF occurrence.n >= 1
                 THEN apply_at(st, tok,
                               positions[IF occurrence.n <= Len(positions) THEN occurrence.n
                                         ELSE Len(positions)],
                               rid, choose, target_char, occurrence)
                 ELSE st

\* the body of "for i, tok in enumerate(span_tokens)" for one rule
apply_rule_at_token(st, rule, span_tokens, i) ==
    LET tok         == span_tokens[i + 1]
        rid         == rule.id[1]
        choose      == normalize_pinyin(rule.choose[1])
        target_char == rule.target[1].char[1]
        occurrence  == rule.target[1].occurrence
        prev_tok    == IF i > 0 THEN Some(span_tokens[i]) ELSE None
        next_tok    == IF i + 1 < Len(span_tokens) THEN Some(span_tokens[i + 2]) ELSE None
        key         == <<tok.start, tok.end>>
    IN  IF ~IsSubstr(target_char, tok.text) THEN st
        ELSE IF ~rule_matches(rule, tok, prev_tok, next_tok) THEN st
        ELSE IF key \notin DOMAIN st.decisions \/ st.decisions[key] = <<>> THEN st
        ELSE LET decisions == st.decisions[key]
                 IsTarget(d) == <<d.char>> = target_char
                 hits == SelectSeq(decisions, IsTarget)
                 positions == [k \in 1..Len(hits) |-> hits[k].offset_in_token]
             IN  IF positions = <<>> THEN st
                 ELSE IF occurrence.all
                 THEN apply_at_all(st, tok, positions, rid, choose, target_char, occurrence)
                 ELSE IF occurrence.n >= 1 /\ occurrence.n <= Len(positions)
                 THEN apply_at(st, tok, positions[occurrence.n], rid, choose, target_char, occurrence)
                 ELSE st

RECURSIVE apply_rule_in_span(_, _, _, _)
apply_rule_in_span(st, rule, span_tokens, i) ==
    IF i >= Len(span_tokens) THEN st
    ELSE apply_rule_in_span(apply_rule_at_token(st, rule, span_tokens, i), rule, span_tokens, i + 1)

RECURSIVE apply_rule(_, _, _)
\* for span_tokens in span_to_tokens.values(): ... for one rule
apply_rule(st, rule, groups) ==
    IF groups = <<>> THEN st
    ELSE apply_rule(apply_rule_in_span(st, rule, Head(groups), 0), rule, Tail(groups))

\* the guards that make the loop over the sorted rules skip a rule
rule_usable(rule) ==
    /\ rule.target # None /\ rule.choose # None /\ rule.id # None
    /\ rule.target[1].char # None /\ rule.target[1].char[1] # <<>>

RECURSIVE apply_rules(_, _, _)
apply_rules(st, rules, groups) ==
    IF rules = <<>> THEN st
    ELSE apply_rules(IF rule_usable(Head(rules)) THEN apply_rule(st, Head(rules), groups) ELSE st,
                     Tail(rules), groups)

\* _apply_overrides: [decisions, applied, conflicts]
_apply_overrides(toks, decisions, overrides_rules) ==
    LET HasId(r) == r.id # None
        parsed_rules == SelectSeq(overrides_rules, HasId)
    IN  apply_rules([decisions |-> decisions, applied |-> <<>>, conflicts |-> <<>>],
                    sort_rules(parsed_rules), group_by_span(toks, <<>>))

(***************************************************************************)
(* core.py: review items and the double check                              *)
(*                                                                         *)
(* opts.double_check_adapter is [kind |-> "none" | "no_method" | "raises"  *)
(* | "not_object" | "missing_items"] or [kind |-> "ok", items |-> <<..>>]; *)
(* a response item is [is_dict, span_id (Optional), token_index            *)
(* (Optional int), char_offset_in_token (Optional int), char (Optional     *)
(* str), recommended (Optional str), reason (Optional str), needs_user].   *)
(***************************************************************************)
decisions_of(decisions, tok) ==
    IF <<tok.start, tok.end>> \in DOMAIN decisions THEN decisions[<<tok.start, tok.end>>] ELSE <<>>

\* the condition under which _collect_review_items lists a decision
is_review_item(d, threshold) ==
    LET low_conf == d.confidence # None /\ d.confidence[1] < threshold
    IN  d.needs_review \/ d.conflict \/ low_conf

RECURSIVE _collect_review_items(_, _, _)
_collect_review_items(toks, decisions, threshold) ==
    IF toks = <<>> THEN <<>>
    ELSE LET tok == Head(toks)
             ds  == decisions_of(decisions, tok)
             Listed(d) == is_review_item(d, threshold)
             sel == SelectSeq(ds, Listed)
         IN  [k \in 1..Len(sel) |->
                [span_id |-> tok.span_id, token_index |-> tok.index_in_span,
                 token_text |-> tok.text, token_start |-> tok.start, token_end |-> tok.end,
                 char_offset_in_token |-> sel[k].offset_in_token, char |-> sel[k].char,
                 candidates |-> sel[k].candidates, chosen |-> sel[k].chosen,
                 confidence |-> sel[k].confidence, needs_review |-> sel[k].needs_review,
                 conflict |-> sel[k].conflict]]
             \o _collect_review_items(Tail(toks), decisions, threshold)

\* a lookup by span id alone: an unknown token index finds the span's last token
token_lookup_by_span(toks, sid, token_index) ==
    LET hit == {k \in 1..Len(toks) : toks[k].span_id = sid}
    IN  IF hit = {} THEN None ELSE Some(toks[SetMax(hit)])

\* tok_by_span_and_index.get((sid, token_index)): the last token with that key
token_lookup(toks, sid, token_index) ==
    LET hit == {k \in 1..Len(toks) : toks[k].span_id = sid /\ toks[k].index_in_span = token_index}
    IN  IF hit = {} THEN None ELSE Some(toks[SetMax(hit)])

\* the body of "for it in resp_items"; st = [decisions, applied, needs_user, warnings]
double_check_item(st, it, toks) ==
    IF ~it.is_dict \/ it.span_id = None \/ it.token_index = None \/ it.char_offset_in_token = None
    THEN st
    ELSE LET sid == it.span_id[1]
             token_index == it.token_index[1]
             char_offset == it.char_offset_in_token[1]
             tok == token_lookup(toks, sid, token_index)
         IN  IF tok = None
             THEN [st EXCEPT !.warnings = Append(@, <<"double_check_item_token_not_found", sid, token_index>>)]
             ELSE LET key == <<tok[1].start, tok[1].end>>
                      decisions == decisions_of(st.decisions, tok[1])
                  IN  IF ~(0 <= char_offset /\ char_offset < Len(decisions))
                      THEN [st EXCEPT !.warnings = Append(@,
                               <<"double_check_item_char_offset_oob", sid, token_index, char_offset>>)]
                      ELSE LET dec == decisions[char_offset + 1]
                               st1 == IF it.char # None /\ it.char[1] # <<>> /\ <<dec.char>> # it.char[1]
                                      THEN [st EXCEPT !.warnings = Append(@,
                                               <<"double_check_item_char_mismatch", sid, token_index,
                                                 char_offset, dec.char, it.char[1]>>)]
                                      ELSE st
                               rec_norm == IF it.recommended # None
                                           THEN Some(normalize_pinyin(it.recommended[1])) ELSE None
                           IN  IF it.needs_user
                               THEN [st1 EXCEPT
                                       !.decisions[key][char_offset + 1] =
                                           [dec EXCEPT !.needs_review = TRUE,
                                                       !.notes = Append(@, <<"llm_double_check_needs_user">>)],
                                       !.needs_user = Append(@,
                                           [span_id |-> sid, token_index |-> token_index,
                                            char_offset_in_token |-> char_offset, char |-> dec.char,
                                            candidates |-> dec.candidates, recommended |-> rec_norm,
                                            reason |-> it.reason])]
                               ELSE IF it.recommended # None /\ it.recommended[1] # <<>>
                               THEN [st1 EXCEPT
                                       !.decisions[key][char_offset + 1] =
                                           [dec EXCEPT !.chosen = rec_norm[1],
                                                       !.resolved_by = "llm_double_check",
                                                       !.needs_review = FALSE,
                                                       !.notes = IF it.reason # None /\ it.reason[1] # ""
                                                                 THEN Append(@, <<"llm_reason", it.reason[1]>>)
                                                                 ELSE @],
                                       !.applied = Append(@,
                                           [span_id |-> sid, token_index |-> token_index,
                                            char_offset_in_token |-> char_offset, char |-> dec.char,
                                            recommended |-> rec_norm[1], reason |-> it.reason])]
                               ELSE st1

RECURSIVE double_check_items(_, _, _)
double_check_items(st, items, toks) ==
    IF items = <<>> THEN st
    ELSE double_check_items(double_check_item(st, Head(items), toks), Tail(items), toks)

\* the "items" of the request payload
request_items(review_items) ==
    [k \in 1..Len(review_items) |->
        [span_id |-> review_items[k].span_id, token_index |-> review_items[k].token_index,
         char_offset_in_token |-> review_items[k].char_offset_in_token,
         char |-> review_items[k].char, candidates |-> review_items[k].candidates,
         current |-> review_items[k].chosen]]

\* a double check that calls the adapter a second time when the call raises
double_check_calls_with_retry(adapter, review_items) ==
    IF adapter.kind = "none" \/ review_items = <<>> THEN 0
    ELSE IF adapter.kind = "no_method" THEN 0
    ELSE IF adapter.kind = "raises" THEN 2
    ELSE 1

\* the number of times _apply_llm_double_check executes double_check_fn(payload)
double_check_calls(adapter, review_items) ==
    IF adapter.kind = "none" \/ review_items = <<>> THEN 0
    ELSE IF adapter.kind = "no_method" THEN 0
    ELSE 1

\* a double check that clears the review flags when the call raises
_apply_llm_double_check_clears_on_raise(adapter, toks, decisions, review_items) ==
    LET meta0 == [used |-> FALSE, error |-> None, request_items |-> None,
                  applied |-> None, needs_user |-> None, warnings |-> None]
        sent  == [meta0 EXCEPT !.used = TRUE, !.request_items = Some(request_items(review_items))]
    IN  IF adapter.kind = "none" \/ review_items = <<>>
        THEN [decisions |-> decisions, meta |-> meta0]
        ELSE CASE adapter.kind = "no_method" ->
                    [decisions |-> decisions,
                     meta |-> [meta0 EXCEPT !.error = Some("llm_adapter_missing_double_check")]]
               [] adapter.kind = "raises" ->
                    [decisions |-> [key \in DOMAIN decisions |->
                                      [k \in 1..Len(decisions[key]) |->
                                          [decisions[key][k] EXCEPT !.needs_review = FALSE]]],
                     meta |-> [sent EXCEPT !.error = Some("llm_double_check_exception")]]
               [] adapter.kind = "not_object" ->
                    [decisions |-> decisions,
                     meta |-> [sent EXCEPT !.error = Some("llm_double_check_response_not_object")]]
               [] adapter.kind = "missing_items" ->
                    [decisions |-> decisions,
                     meta |-> [sent EXCEPT !.error = Some("llm_double_check_missing_items")]]
               [] OTHER ->
                    LET st == double_check_items([decisions |-> decisions, applied |-> <<>>,
                                                  needs_user |-> <<>>, warnings |-> <<>>],
                                                 adapter.items, toks)
                    IN  [decisions |-> st.decisions,
                         meta |-> [sent EXCEPT !.applied = Some(st.applied),
                                               !.needs_user = Some(st.needs_user),
                                               !.warnings = Some(st.warnings)]]

\* _apply_llm_double_check: [decisions, meta]
_apply_llm_double_check(adapter, toks, decisions, review_items) ==
    LET meta0 == [used |-> FALSE, error |-> None, request_items |-> None,
                  applied |-> None, needs_user |-> None, warnings |-> None]
        sent  == [meta0 EXCEPT !.used = TRUE, !.request_items = Some(request_items(review_items))]
    IN  IF adapter.kind = "none" \/ review_items = <<>>
        THEN [decisions |-> decisions, meta |-> meta0]
        ELSE CASE adapter.kind = "no_method" ->
                    [decisions |-> decisions,
                     meta |-> [meta0 EXCEPT !.error = Some("llm_adapter_missing_double_check")]]
               [] adapter.kind = "raises" ->
                    [decisions |-> decisions,
                     meta |-> [sent EXCEPT !.error = Some("llm_double_check_exception")]]
               [] adapter.kind = "not_object" ->
                    [decisions |-> decisions,
                     meta |-> [sent EXCEPT !.error = Some("llm_double_check_response_not_object")]]
               [] adapter.kind = "missing_items" ->
                    [decisions |-> decisions,
                     meta |-> [sent EXCEPT !.error = Some("llm_double_check_missing_items")]]
               [] OTHER ->
                    LET st == double_check_items([decisions |-> decisions, applied |-> <<>>,
                                                  needs_user |-> <<>>, warnings |-> <<>>],
                                                 adapter.items, toks)
                    IN  [decisions |-> st.decisions,
                         meta |-> [sent EXCEPT !.applied = Some(st.applied),
                                               !.needs_user = Some(st.needs_user),
                                               !.warnings = Some(st.warnings)]]

(***************************************************************************)
(* core.py: output stitching and the report                                *)
(***************************************************************************)
\* s.endswith((" ", "\t", "\n"))
ends_with_blank(s) == s # <<>> /\ s[Len(s)] \in {CP.sp, CP.tab, CP.nl}

\* s.startswith((" ", "\t", "\n"))
starts_with_blank(s) == s # <<>> /\ s[1] \in {CP.sp, CP.tab, CP.nl}

RECURSIVE join_space(_)
\* " ".join(parts)
join_space(parts) ==
    IF parts = <<>> THEN <<>>
    ELSE IF Len(parts) = 1 THEN parts[1]
    ELSE parts[1] \o <<CP.sp>> \o join_space(Tail(parts))

\* token_pinyin[key] after the rebuild: "".join(d.chosen for d in decisions)
token_pinyin_of(decisions, tok) ==
    LET ds == decisions_of(decisions, tok)
    IN  Concat([k \in 1..Len(ds) |-> ds[k].chosen])

\* han_span_output(span_id)
han_span_output(span_id, toks, decisions) ==
    LET InSpan(t) == t.span_id = span_id
        mine == SelectSeq(toks, InSpan)
    IN  join_space([k \in 1..Len(mine) |-> token_pinyin_of(decisions, mine[k])])

RECURSIVE stitch(_, _, _, _, _, _, _)
\* the "for sp in spans" loop of the output stitching: out_parts
stitch(sps, toks, decisions, word_like_spacing, out_parts, prev_kind, prev_was_han) ==
    IF sps = <<>> THEN out_parts
    ELSE LET sp == Head(sps)
             last == out_parts[Len(out_parts)]
         IN  IF sp.type = "han"
             THEN LET han_out == han_span_output(sp.span_id, toks, decisions)
                      gap == /\ word_like_spacing /\ out_parts # <<>>
                             /\ ~prev_was_han /\ is_word_like_protected_kind(prev_kind)
                             /\ ~ends_with_blank(last)
                  IN  stitch(Tail(sps), toks, decisions, word_like_spacing,
                             (IF gap THEN Append(out_parts, <<CP.sp>>) ELSE out_parts) \o <<han_out>>,
                             "none", TRUE)
             ELSE LET gap == /\ word_like_spacing /\ out_parts # <<>>
                             /\ prev_was_han /\ is_word_like_protected_kind(sp.kind)
                             /\ ~ends_with_blank(last) /\ ~starts_with_blank(sp.text)
                  IN  stitch(Tail(sps), toks, decisions, word_like_spacing,
                             (IF gap THEN Append(out_parts, <<CP.sp>>) ELSE out_parts) \o <<sp.text>>,
                             sp.kind, FALSE)

\* " ".join(out_parts) in place of "".join(out_parts)
output_text_of_space_joined(sps, toks, decisions, word_like_spacing) ==
    join_space(stitch(sps, toks, decisions, word_like_spacing, <<>>, "none", FALSE))

\* output_text
output_text_of(sps, toks, decisions, word_like_spacing) ==
    Concat(stitch(sps, toks, decisions, word_like_spacing, <<>>, "none", FALSE))

\* report["tokens"]
report_tokens(toks, decisions) ==
    [k \in 1..Len(toks) |->
        [span_id |-> toks[k].span_id, index_in_span |-> toks[k].index_in_span,
         start |-> toks[k].start, end |-> toks[k].end, text |-> toks[k].text,
         upos |-> toks[k].upos, xpos |-> toks[k].xpos, ner |-> toks[k].ner,
         pinyin |-> token_pinyin_of(decisions, toks[k]),
         char_decisions |-> decisions_of(decisions, toks[k])]]

\* report["unresolved_fallback"]
unresolved_fallback(review_items_after, dc_meta) ==
    review_items_after # <<>> /\ ~(dc_meta.used /\ dc_meta.error = None)

(***************************************************************************)
(* pinyinize as a state machine: one action per step of the function, and  *)
(* Reinvoke for the caller that calls pinyinize again with the same text   *)
(* and options.                                                            *)
(***************************************************************************)
MaxRuns == 2

locals == <<spans, tokens, llm_meta, token_decisions, warnings, applied_rules, conflicts,
            review_items_before, double_check_meta, result, calls>>

inputs == <<text, res, opts>>

NoMeta == [used |-> FALSE, error |-> None]

NoCalls == [segment_and_tag |-> 0, double_check |-> 0]

LocalsInit ==
    /\ spans = <<>> /\ tokens = <<>> /\ llm_meta = NoMeta
    /\ token_decisions = EmptyMap /\ warnings = <<>>
    /\ applied_rules = <<>> /\ conflicts = <<>>
    /\ review_items_before = <<>> /\ double_check_meta = NoMeta
    /\ result = None
    /\ calls = NoCalls

\* spans = split_spans(text)
SplitSpans ==
    /\ pc = "start"
    /\ spans' = split_spans(text)
    /\ pc' = "split"
    /\ UNCHANGED <<inputs, run, tokens, llm_meta, token_decisions, warnings, applied_rules,
                   conflicts, review_items_before, double_check_meta, result, first_result, calls, other>>

\* tokens, llm_meta = _tokens_from_spans_llm_or_fallback(...).  When the
\* adapter is called the statement takes two steps: the call of
\* segment_fn(request), inside which the invocation waits for the answer while
\* other invocations run, and the rest of the function with the assignment.
Tokenize ==
    /\ pc = "split"
    /\ IF calls.segment_and_tag = 0 /\ segment_and_tag_calls(spans, opts.llm_adapter) > 0
       THEN /\ calls' = [calls EXCEPT !.segment_and_tag = segment_and_tag_calls(spans, opts.llm_adapter)]
            /\ UNCHANGED <<pc, tokens, llm_meta>>
       ELSE /\ LET r == _tokens_from_spans_llm_or_fallback(spans, combined_word_pinyin(res),
                                                          opts.llm_adapter)
               IN  tokens' = r.tokens /\ llm_meta' = r.meta
            /\ pc' = "tokenized"
            /\ UNCHANGED calls
    /\ UNCHANGED <<inputs, run, spans, token_decisions, warnings, applied_rules,
                   conflicts, review_items_before, double_check_meta, result, first_result, other>>

\* list(seq): the elements of seq in a list of its own
list(seq) == seq \o <<>>

\* what the "for tok in tokens" loop makes of the results a of _analyze_token:
\* the side table, the warnings, and the exception that leaves the loop (and
\* pinyinize), if any
collect_analysis(toks, a) ==
    LET keys == {<<toks[k].start, toks[k].end>> : k \in 1..Len(toks)}
        last(key) == SetMax({k \in 1..Len(toks) : <<toks[k].start, toks[k].end>> = key})
        raising == {k \in 1..Len(toks) : a[k].error # None}
    IN  [decisions |-> [key \in keys |-> list(a[last(key)].decisions)],
         warnings |-> Concat([k \in 1..Len(toks) |-> a[k].warnings]),
         error |-> IF raising = {} THEN None
                   ELSE a[CHOOSE k \in raising : \A j \in raising : k <= j].error]

\* the "for tok in tokens" loop over _analyze_token
analyze_all(toks, word_pinyin, r) ==
    collect_analysis(toks, [k \in 1..Len(toks) |-> _analyze_token(toks[k], word_pinyin, r)] \o <<>>)

AnalyzeTokens ==
    /\ pc = "tokenized"
    /\ \E r \in {analyze_all(tokens, combined_word_pinyin(res), res)} :
           IF r.error # None
           THEN pc' = "raised" /\ UNCHANGED <<token_decisions, warnings>>
           ELSE /\ token_decisions' = r.decisions /\ warnings' = r.warnings
                /\ pc' = "analyzed"
    /\ UNCHANGED <<inputs, run, spans, tokens, llm_meta, applied_rules,
                   conflicts, review_items_before, double_check_meta, result, first_result, calls, other>>

\* an override pass that empties the caller's rule list as it goes
ApplyOverrides_consumes_rules ==
    /\ pc = "analyzed"
    /\ LET r == _apply_overrides(tokens, token_decisions, res.overrides_rules)
       IN  /\ token_decisions' = r.decisions
           /\ applied_rules' = r.applied
           /\ conflicts' = r.conflicts
    /\ res' = [res EXCEPT !.overrides_rules = <<>>]
    /\ pc' = "overridden"
    /\ UNCHANGED <<text, opts, run, spans, tokens, llm_meta, warnings,
                   review_items_before, double_check_meta, result, first_result, calls, other>>

\* applied_rules, conflicts = _apply_overrides(...)
ApplyOverrides ==
    /\ pc = "analyzed"
    /\ LET r == _apply_overrides(tokens, token_decisions, res.overrides_rules)
       IN  /\ token_decisions' = r.decisions
           /\ applied_rules' = r.applied
           /\ conflicts' = r.conflicts
    /\ pc' = "overridden"
    /\ UNCHANGED <<inputs, run, spans, tokens, llm_meta, warnings,
                   review_items_before, double_check_meta, result, first_result, calls, other>>

\* review_items_before = _collect_review_items(...);
\* double_check_meta = _apply_llm_double_check(...).  When the adapter is
\* called the statements take two steps: the review items and the call of
\* double_check_fn(payload), inside which the invocation waits for the answer
\* while other invocations run, and the handling of the answer.
DoubleCheck ==
    /\ pc = "overridden"
    /\ LET items == _collect_review_items(tokens, token_decisions, opts.double_check_threshold)
           r == _apply_llm_double_check(opts.double_check_adapter, tokens, token_decisions, items)
       IN  IF calls.double_check = 0 /\ double_check_calls(opts.double_check_adapter, items) > 0
           THEN /\ review_items_before' = items
                /\ calls' = [calls EXCEPT !.double_check =
                                 double_check_calls(opts.double_check_adapter, items)]
                /\ UNCHANGED <<pc, token_decisions, double_check_meta>>
           ELSE /\ review_items_before' = items
                /\ token_decisions' = r.decisions
                /\ double_check_meta' = r.meta
                /\ pc' = "checked"
                /\ UNCHANGED calls
    /\ UNCHANGED <<inputs, run, spans, tokens, llm_meta, warnings, applied_rules, conflicts,
                   result, first_result, other>>

\* the rest of pinyinize: output stitching, the report, return, for the
\* invocation with locals inv (a record of the fields of locals, and its text)
pinyinize_return(inv, o) ==
    LET review_items_after == _collect_review_items(inv.tokens, inv.token_decisions, o.double_check_threshold)
    IN  [output_text |-> output_text_of(inv.spans, inv.tokens, inv.token_decisions, o.word_like_spacing),
         report |-> [schema_version |-> 1, text |-> inv.text, spans |-> inv.spans,
                     tokens |-> report_tokens(inv.tokens, inv.token_decisions),
                     llm_segment_and_tag |-> inv.llm_meta,
                     llm_double_check |-> inv.double_check_meta,
                     needs_review_items |-> review_items_after,
                     unresolved_fallback |-> unresolved_fallback(review_items_after, inv.double_check_meta),
                     applied_overrides |-> inv.applied_rules,
                     conflicts |-> inv.conflicts,
                     warnings |-> inv.warnings]]

pinyinize_result ==
    pinyinize_return([text |-> text, spans |-> spans, tokens |-> tokens,
                      token_decisions |-> token_decisions, llm_meta |-> llm_meta,
                      double_check_meta |-> double_check_meta, applied_rules |-> applied_rules,
                      conflicts |-> conflicts, warnings |-> warnings], opts)

\* the locals of an invocation of pinyinize(txt, ...) before its first statement
invocation(txt) ==
    [text |-> txt, pc |-> "start", spans |-> <<>>, tokens |-> <<>>, llm_meta |-> NoMeta,
     token_decisions |-> EmptyMap, warnings |-> <<>>, applied_rules |-> <<>>, conflicts |-> <<>>,
     review_items_before |-> <<>>, double_check_meta |-> NoMeta, result |-> None,
     calls |-> NoCalls]

\* no second invocation
NoOther == [invocation(<<>>) EXCEPT !.pc = "none"]

\* the locals after the resolution loop with outcome a
analyzed(inv, a) ==
    IF a.error # None THEN [inv EXCEPT !.pc = "raised"]
    ELSE [inv EXCEPT !.token_decisions = a.decisions, !.warnings = a.warnings, !.pc = "analyzed"]

\* the next step of pinyinize for the invocation with locals inv, reading the
\* resources r and the options o: a statement, or one of the two steps of a
\* statement that calls an adapter
pinyinize_step(inv, r, o) ==
    CASE inv.pc = "start" ->
             [inv EXCEPT !.spans = split_spans(inv.text), !.pc = "split"]
      [] inv.pc = "split" ->
             IF inv.calls.segment_and_tag = 0 /\ segment_and_tag_calls(inv.spans, o.llm_adapter) > 0
             THEN [inv EXCEPT !.calls.segment_and_tag = segment_and_tag_calls(inv.spans, o.llm_adapter)]
             ELSE LET t == _tokens_from_spans_llm_or_fallback(inv.spans, combined_word_pinyin(r),
                                                              o.llm_adapter)
                  IN  [inv EXCEPT !.tokens = t.tokens, !.llm_meta = t.meta, !.pc = "tokenized"]
      [] inv.pc = "tokenized" ->
             analyzed(inv, analyze_all(inv.tokens, combined_word_pinyin(r), r))
      [] inv.pc = "analyzed" ->
             LET v == _apply_overrides(inv.tokens, inv.token_decisions, r.overrides_rules)
             IN  [inv EXCEPT !.token_decisions = v.decisions, !.applied_rules = v.applied,
                             !.conflicts = v.conflicts, !.pc = "overridden"]
      [] inv.pc = "overridden" ->
             LET items == _collect_review_items(inv.tokens, inv.token_decisions, o.double_check_threshold)
                 c == _apply_llm_double_check(o.double_check_adapter, inv.tokens, inv.token_decisions, items)
             IN  IF inv.calls.double_check = 0 /\ double_check_calls(o.double_check_adapter, items) > 0
                 THEN [inv EXCEPT !.review_items_before = items,
                                  !.calls.double_check = double_check_calls(o.double_check_adapter, items)]
                 ELSE [inv EXCEPT !.review_items_before = items, !.token_decisions = c.decisions,
                                  !.double_check_meta = c.meta, !.pc = "checked"]
      [] inv.pc = "checked" ->
             [inv EXCEPT !.result = Some(pinyinize_return(inv, o)), !.pc = "done"]
      [] OTHER -> inv

\* a step of the second invocation that also empties the shared rule list
OtherStep_consumes_rules ==
    /\ other.pc \notin {"none", "done", "raised"}
    /\ other' = pinyinize_step(other, res, opts)
    /\ res' = IF other.pc = "analyzed" THEN [res EXCEPT !.overrides_rules = <<>>] ELSE res
    /\ UNCHANGED <<text, opts, pc, run, locals, first_result>>

\* the second invocation takes its next step
OtherStep ==
    /\ other.pc \notin {"none", "done", "raised"}
    /\ other' = pinyinize_step(other, res, opts)
    /\ UNCHANGED <<inputs, pc, run, locals, first_result>>

Compose ==
    /\ pc = "checked"
    /\ result' = Some(pinyinize_result)
    /\ first_result' = IF run = 1 THEN Some(pinyinize_result) ELSE first_result
    /\ pc' = "done"
    /\ UNCHANGED <<inputs, run, spans, tokens, llm_meta, token_decisions, warnings,
                   applied_rules, conflicts, review_items_before, double_check_meta, calls, other>>

\* the caller calls pinyinize(text, options) again, after a return or an
\* exception: fresh locals
Reinvoke ==
    /\ pc \in {"done", "raised"} /\ run < MaxRuns
    /\ run' = run + 1
    /\ pc' = "start"
    /\ spans' = <<>> /\ tokens' = <<>> /\ llm_meta' = NoMeta
    /\ token_decisions' = EmptyMap /\ warnings' = <<>>
    /\ applied_rules' = <<>> /\ conflicts' = <<>>
    /\ review_items_before' = <<>> /\ double_check_meta' = NoMeta
    /\ result' = None
    /\ calls' = NoCalls
    /\ UNCHANGED <<inputs, first_result, other>>

Next ==
    \/ SplitSpans
    \/ Tokenize
    \/ AnalyzeTokens
    \/ ApplyOverrides
    \/ DoubleCheck
    \/ Compose
    \/ Reinvoke

\* two invocations in two threads
NextShared ==
    \/ Next
    \/ OtherStep

(***************************************************************************)
(* Inputs.                                                                 *)
(***************************************************************************)
\* the str values used as pinyin, words and rule ids
Py == [ xing  |-> <<120, 237, 110, 103>>,       \* "xíng"
        hang  |-> <<104, 225, 110, 103>>,       \* "háng"
        yin   |-> <<121, 237, 110>>,            \* "yín"
        zhang |-> <<122, 104, 462, 110, 103>>,  \* "zhǎng"
        hao   |-> <<104, 462, 111>>,            \* "hǎo"
        lv    |-> <<108, 118>>,                 \* "lv"
        lu    |-> <<108, 252>> ]                \* "lü"

RECURSIVE ChunkTexts(_, _)
\* the texts made of at most n chunks
ChunkTexts(chunks, n) ==
    IF n = 0 THEN {<<>>}
    ELSE LET shorter == ChunkTexts(chunks, n - 1)
         IN  shorter \cup {c \o t : c \in chunks, t \in shorter}

NoAdapter == [kind |-> "none"]

BaseOpts == [word_like_spacing |-> TRUE, llm_adapter |-> NoAdapter,
             double_check_adapter |-> NoAdapter, double_check_threshold |-> 850]

\* the resources of the spec's scenarios: words 银行 and 行长, 行 a polyphone
BaseRes ==
    [word_pinyin |-> (<<CP.yin, CP.xing>> :> (Py.yin \o <<CP.sp>> \o Py.hang))
                     @@ (<<CP.xing, CP.zhang>> :> (Py.hang \o <<CP.sp>> \o Py.zhang)),
     lexicon_pinyin |-> EmptyMap,
     char_base |-> (CP.xing :> <<Py.xing, Py.hang>>) @@ (CP.yin :> <<Py.yin>>)
                   @@ (CP.zhang :> <<Py.zhang>>) @@ (CP.hao :> <<Py.hao>>),
     polyphone_disambig |-> EmptyMap,
     disambig_thresholds |-> ("min_support" :> 5) @@ ("min_prob" :> 850) @@ ("min_margin" :> 150),
     overrides_rules |-> <<>>]

InitWith(T, R, O) ==
    /\ text \in T /\ res \in R /\ opts \in O
    /\ pc = "start" /\ run = 1 /\ first_result = None
    /\ LocalsInit
    /\ other = NoOther

(***************************************************************************)
(* SpecSplit: texts of every span kind, the base resources.                *)
(***************************************************************************)
MaxSplitChunks == 3

SplitChunks ==
    { <<CP.h, CP.t, CP.t, CP.p, CP.colon, CP.slash, CP.slash>>,           \* "http://"
      <<CP.H, CP.T, CP.T, CP.P, CP.S, CP.colon, CP.slash, CP.slash>>,     \* "HTTPS://"
      <<CP.h, CP.t, CP.t, CP.p, CP.colon, CP.slash>>,                     \* "http:/"
      <<CP.xing>>, <<CP.yin>>, <<CP.sp>>, <<CP.ideosp>>, <<CP.a>>, <<CP.one>>, <<CP.dot>>,
      <<CP.dash>>, <<CP.fwcolon>>, <<CP.eacute>> }

\* "访问https://example.com即可"
UrlExampleText ==
    <<35775, 38382>>
    \o <<104, 116, 116, 112, 115, 58, 47, 47, 101, 120, 97, 109, 112, 108, 101, 46, 99, 111, 109>>
    \o <<21363, 21487>>

InitSplit ==
    InitWith(ChunkTexts(SplitChunks, MaxSplitChunks) \cup {UrlExampleText}, {BaseRes},
             {[BaseOpts EXCEPT !.word_like_spacing = b] : b \in BOOLEAN})

SpecSplit == InitSplit /\ [][Next]_vars

(***************************************************************************)
(* C1.  For every input text, split_spans returns spans that are           *)
(* contiguous and non-overlapping (the first starts at 0, each span starts *)
(* where the previous one ends, the last ends at len(text)), every span is *)
(* non-empty, and the concatenation of the span texts equals the input.    *)
(***************************************************************************)
SpansPartition(str, sps) ==
    /\ (sps = <<>>) <=> (str = <<>>)
    /\ sps # <<>> => sps[1].start = 0 /\ sps[Len(sps)].end = Len(str)
    /\ \A k \in 1..Len(sps) :
        /\ sps[k].start < sps[k].end
        /\ sps[k].text # <<>>
        /\ Len(sps[k].text) = sps[k].end - sps[k].start
        /\ k > 1 => sps[k].start = sps[k - 1].end
    /\ Concat([k \in 1..Len(sps) |-> sps[k].text]) = str

C1_SpansPartition == pc # "start" => SpansPartition(text, spans)

\* a Han span and a url span in one text
C1_Witness ==
    /\ pc = "split" /\ Len(spans) >= 2
    /\ \E k \in 1..Len(spans) : spans[k].kind = "url"
    /\ \E k \in 1..Len(spans) : spans[k].type = "han"
    /\ SpansPartition(text, spans)

(***************************************************************************)
(* SpecTok: Han spans separated by a Latin letter, every kind of advisory  *)
(* tagging adapter, responses with valid and invalid spans.                *)
(***************************************************************************)
MaxTokChunks == 3

MaxRespTokens == 2

W == [ yinhang   |-> <<CP.yin, CP.xing>>,                      \* 银行
       hangzhang |-> <<CP.xing, CP.zhang>>,                    \* 行长
       yinhanghang |-> <<CP.yin, CP.xing, CP.xing>>,           \* 银行行
       hanghangzhangyin |-> <<CP.xing, CP.xing, CP.zhang, CP.yin>> ]  \* 行行长银

RespToken(txt, upos, xpos, ner) ==
    [is_dict |-> TRUE, text |-> Some(txt), upos |-> Some(upos), xpos |-> Some(xpos), ner |-> Some(ner)]

RespTokenPool ==
    { RespToken(<<CP.yin>>, "NOUN", "NN", "O"),
      RespToken(<<CP.xing>>, "VERB", "VV", "O"),
      RespToken(W.yinhang, "NOUN", "NN", "ORG"),
      RespToken(<<CP.xing>>, "BAD", "VV", "O"),
      [is_dict |-> FALSE, text |-> None, upos |-> None, xpos |-> None, ner |-> None] }

RECURSIVE SeqsUpTo(_, _)
\* the sequences over S of length at most n
SeqsUpTo(S, n) ==
    IF n = 0 THEN {<<>>}
    ELSE LET shorter == SeqsUpTo(S, n - 1)
         IN  shorter \cup {<<x>> \o t : x \in S, t \in shorter}

RespEntry(sid, toks) == [is_dict |-> TRUE, span_id |-> Some(sid), tokens |-> Some(toks)]

\* responses: an optional entry for S0, then an optional one for S2 (the S2
\* entry goes with the S0 entries of at most one token)
TokResponses ==
    LET first == {<<>>} \cup {<<RespEntry("S0", ts)>> : ts \in SeqsUpTo(RespTokenPool, MaxRespTokens)}
        second == {<<>>,
                   <<RespEntry("S2", <<RespToken(<<CP.xing>>, "VERB", "VV", "O")>>)>>,
                   <<RespEntry("S2", <<RespToken(<<CP.yin>>, "X", "", "O")>>)>>,
                   <<RespEntry("S2", <<RespToken(<<CP.xing>>, "VERB", "VV", "BAD")>>)>>,
                   <<RespEntry("S2", <<RespToken(<<CP.xing>>, "VERB", "VV", "O"),
                                       RespToken(<<>>, "NOUN", "NN", "O")>>)>>}
        short(a) == a = <<>> \/ Len(a[1].tokens[1]) <= 1
    IN  {a \o b : a \in {x \in first : short(x)}, b \in second} \cup first

TokAdapters ==
    {[kind |-> k] : k \in {"none", "no_method", "raises", "not_object", "missing_spans"}}
    \cup {[kind |-> "ok", spans |-> r, warnings |-> <<>>] : r \in TokResponses}

InitTok ==
    InitWith(ChunkTexts({<<CP.yin>>, <<CP.xing>>, <<CP.a>>}, MaxTokChunks),
             {BaseRes},
             {[BaseOpts EXCEPT !.llm_adapter = a] : a \in TokAdapters})

SpecTok == InitTok /\ [][Next]_vars

(***************************************************************************)
(* C2.  For every Han span, under the fallback strategy, under an accepted *)
(* advisory response and under per-span fallback after a rejected one, the *)
(* span's tokens are non-empty, have index_in_span 0, 1, 2, ... in order,  *)
(* start at the span's start, are contiguous, end at the span's end, and   *)
(* their texts concatenate to the span's text, so that                     *)
(* original_text[token.start:token.end] = token.text.                      *)
(***************************************************************************)
TokensOfSpan(sp, toks) ==
    LET InSpan(t) == t.span_id = sp.span_id
    IN  SelectSeq(toks, InSpan)

SpanTokensCover(str, sp, ts) ==
    /\ ts # <<>>
    /\ ts[1].start = sp.start /\ ts[Len(ts)].end = sp.end
    /\ \A k \in 1..Len(ts) :
        /\ ts[k].text # <<>>
        /\ ts[k].index_in_span = k - 1
        /\ k > 1 => ts[k].start = ts[k - 1].end
        /\ Slice(str, ts[k].start, ts[k].end) = ts[k].text
    /\ Concat([k \in 1..Len(ts) |-> ts[k].text]) = sp.text

Tokenized == pc \notin {"start", "split"}

C2_TokensCoverSpan ==
    Tokenized =>
        /\ \A k \in 1..Len(spans) :
            spans[k].type = "han" => SpanTokensCover(text, spans[k], TokensOfSpan(spans[k], tokens))
        /\ \A j \in 1..Len(tokens) :
            \E k \in 1..Len(spans) : spans[k].type = "han" /\ spans[k].span_id = tokens[j].span_id

\* one response in which a span keeps its advisory token and another span is
\* rejected and tokenized by the fallback
C2_Witness ==
    /\ pc = "tokenized" /\ llm_meta.used /\ llm_meta.error = None
    /\ llm_meta.invalid_spans = Some(<<"S2">>)
    /\ \E j \in 1..Len(tokens) : tokens[j].span_id = "S0" /\ tokens[j].upos = "NOUN"
    /\ \E j \in 1..Len(tokens) : tokens[j].span_id = "S2" /\ tokens[j].upos = "X"

(***************************************************************************)
(* SpecFmm: no adapter, every dictionary over a pool of words.             *)
(***************************************************************************)
MaxFmmChunks == 4

WordPool == {W.yinhang, W.hangzhang, W.yinhanghang, W.hanghangzhangyin}

\* a dictionary with the given words (the entry is one syllable per character)
DictOf(words) == [w \in words |-> join_space([k \in 1..Len(w) |-> Py.xing])]

InitFmm ==
    InitWith(ChunkTexts({<<CP.yin>>, <<CP.xing>>, <<CP.zhang>>, <<CP.a>>}, MaxFmmChunks),
             {[BaseRes EXCEPT !.word_pinyin = DictOf(ws), !.lexicon_pinyin = DictOf(ls)] :
                 ws \in SUBSET WordPool, ls \in {{}, {<<CP.xing>>}}},
             {BaseOpts})

SpecFmm == InitFmm /\ [][Next]_vars

(***************************************************************************)
(* C8.  Fallback tokenization is Forward Maximum Matching: at each scan    *)
(* position of a Han span the emitted token is the longest word of the     *)
(* combined dictionary that starts at that position and fits in the rest   *)
(* of the span, and a single-character token when no dictionary word       *)
(* starts there; the bound by the longest known word with the same first   *)
(* character never hides a matching word.  Every fallback token carries    *)
(* upos X and ner O.                                                       *)
(***************************************************************************)
\* the lengths of the dictionary words that start at offset i of str
WordLengthsAt(str, i, words) ==
    {L \in 1..(Len(str) - i) : Slice(str, i, i + L) \in DOMAIN words}

IsLongestMatch(sp, tok, words) ==
    LET i  == tok.start - sp.start
        Ls == WordLengthsAt(sp.text, i, words)
    IN  /\ tok.text = Slice(sp.text, i, i + Len(tok.text))
        /\ IF Ls = {} THEN Len(tok.text) = 1
           ELSE /\ Len(tok.text) \in Ls
                /\ \A L \in Ls : L <= Len(tok.text)

C8_ForwardMaximumMatching ==
    (Tokenized /\ ~llm_meta.used) =>
        \A j \in 1..Len(tokens) :
            /\ tokens[j].upos = "X" /\ tokens[j].ner = "O"
            /\ \E k \in 1..Len(spans) :
                /\ spans[k].span_id = tokens[j].span_id /\ spans[k].type = "han"
                /\ IsLongestMatch(spans[k], tokens[j], combined_word_pinyin(res))

\* the scenario of the spec: words 银行 and 行长, span 银行行长, tokens 银行, 行长
C8_Witness ==
    /\ pc = "tokenized" /\ ~llm_meta.used
    /\ text = W.yinhang \o W.hangzhang
    /\ DOMAIN combined_word_pinyin(res) = {W.yinhang, W.hangzhang, W.hanghangzhangyin}
    /\ Len(tokens) = 2 /\ tokens[1].text = W.yinhang /\ tokens[2].text = W.hangzhang

(***************************************************************************)
(* SpecResolve: tokens of one or two characters over a polyphone (行) and  *)
(* a character that is single-candidate or unknown (银); dictionaries with *)
(* aligned and misaligned entries; polyphone tables with every shape of    *)
(* context entry.                                                          *)
(***************************************************************************)
MaxResolveChunks == 2

Num(v) == Some([ok |-> TRUE, v |-> v])

Malformed == Some([ok |-> FALSE, v |-> 0])

\* p, p2 (thousandths) and n of the context entries whose fields are absent
\* or numbers; 0.95 - 0.8 and 1.0 - 0.75 lie on the margins 0.15 and 0.25
ProbGrid == {None, Num(750), Num(950), Num(1000)}

Prob2Grid == {None, Num(0), Num(750), Num(800)}

SupportGrid == {None, Num(2), Num(5), Num(1000)}

NumericEntries ==
    {[best |-> Some(Py.hang), p |-> p, p2 |-> p2, n |-> n] :
        p \in ProbGrid, p2 \in Prob2Grid, n \in SupportGrid}

\* entries with a field that is not a number (a string, a list)
MalformedEntries ==
    {[best |-> Some(Py.hang), p |-> p, p2 |-> p2, n |-> n] :
        p \in {Malformed, Num(750)}, p2 \in {Malformed, Num(0)}, n \in {Malformed, Num(5)}}
    \ NumericEntries

\* entries with a field that is float('inf'), and an entry with an empty best
SpecialEntries ==
    { [best |-> Some(Py.hang), p |-> Num(1000), p2 |-> Num(0), n |-> Num(FloatInf)],
      [best |-> Some(Py.hang), p |-> Num(FloatInf), p2 |-> Num(0), n |-> Num(5)],
      [best |-> Some(Py.hang), p |-> Num(1000), p2 |-> Num(FloatInf), n |-> Num(5)],
      [best |-> Some(<<>>), p |-> Num(1000), p2 |-> Num(0), n |-> Num(FloatInf)] }

CtxEntries == NumericEntries \cup MalformedEntries \cup SpecialEntries

DisambigTables ==
    {EmptyMap}
    \cup {CP.xing :> [default |-> d, candidates |-> <<Py.xing, Py.hang>>, contexts |-> (k :> c)] :
            d \in {None, Some(Py.hang)},
            k \in {context_key("X", "O"), context_key("NOUN", "O")},
            c \in CtxEntries}

ThresholdSets ==
    { EmptyMap,
      ("min_support" :> 5) @@ ("min_prob" :> 850) @@ ("min_margin" :> 150),
      ("min_support" :> 3) @@ ("min_prob" :> 750) @@ ("min_margin" :> 250) }

\* one entry for 银行 or for 行: aligned, short, long, blank, and with mixed
\* whitespace around the syllables
ResolveDicts ==
    { EmptyMap,
      W.yinhang :> (Py.yin \o <<CP.sp>> \o Py.hang),
      W.yinhang :> (<<CP.sp>> \o Py.yin \o <<CP.tab, CP.sp>> \o Py.hang \o <<CP.sp>>),
      W.yinhang :> Py.yin,
      <<CP.xing>> :> (Py.xing \o <<CP.sp>> \o Py.hang),
      <<CP.xing>> :> <<>>,
      <<CP.xing>> :> Py.hang }

CharBases ==
    { (CP.xing :> <<Py.xing, Py.hang>>) @@ (CP.yin :> <<Py.yin>>),
      (CP.xing :> <<Py.xing, Py.hang>>) }

ResolveTexts == ChunkTexts({<<CP.xing>>, <<CP.yin>>}, MaxResolveChunks)

InitResolve ==
    \/ InitWith(ResolveTexts,
                {[BaseRes EXCEPT !.word_pinyin = EmptyMap, !.lexicon_pinyin = d, !.char_base = cb,
                                 !.polyphone_disambig = t] :
                    d \in ResolveDicts, cb \in CharBases,
                    t \in {EmptyMap}
                          \cup {CP.xing :> [default |-> d, candidates |-> c, contexts |-> EmptyMap] :
                                   d \in {None, Some(<<>>), Some(Py.hang)},
                                   c \in {<<>>, <<Py.xing, Py.hang>>, <<Py.hang, Py.xing>>}}},
                {BaseOpts})
    \/ InitWith(ResolveTexts,
                {[BaseRes EXCEPT !.word_pinyin = EmptyMap, !.polyphone_disambig = t,
                                 !.disambig_thresholds = th] :
                    t \in DisambigTables, th \in ThresholdSets},
                {BaseOpts})

SpecResolve == InitResolve /\ [][Next]_vars

\* the token was resolved as a whole word
WordResolved(tok, words) ==
    tok.text \in DOMAIN words /\ Len(split_ws(words[tok.text], <<>>)) = Len(tok.text)

\* the decision of character i (0-based) of token tok
DecisionAt(tok, i) == token_decisions[<<tok.start, tok.end>>][i + 1]

\* the value of a well-formed numeric field, 0 when the field is absent
Supplied(f) == IF f = None THEN 0 ELSE f[1].v

WellFormed(ctx) == \A f \in {ctx.n, ctx.p, ctx.p2} : f = None \/ f[1].ok

(***************************************************************************)
(* C6.  For a polyphone whose table has a context entry (with a non-empty  *)
(* best) for the token's pos/ner key, the chosen value is best, and        *)
(* needs_review is false exactly when n >= min_support and p >= min_prob   *)
(* and (p - p2) >= min_margin; the reported confidence is p (unset when p  *)
(* is absent).  With thresholds {5, 0.85, 0.15}, an entry p = 1.0,         *)
(* p2 = 0.0, n = 1000 gives needs_review = false and the same entry with   *)
(* n = 2 gives needs_review = true.  (Stated for entries whose numeric     *)
(* fields are absent or numbers.)                                          *)
(***************************************************************************)
\* character i of tok is a polyphone resolved through the context entry ctx
HasContextEntry(tok, i, ctx) ==
    LET ch == tok.text[i + 1]
    IN  /\ ~WordResolved(tok, combined_word_pinyin(res))
        /\ ch \in DOMAIN res.char_base /\ Len(res.char_base[ch]) >= 2
        /\ ch \in DOMAIN res.polyphone_disambig
        /\ context_key(tok.upos, tok.ner) \in DOMAIN res.polyphone_disambig[ch].contexts
        /\ ctx = res.polyphone_disambig[ch].contexts[context_key(tok.upos, tok.ner)]
        /\ ctx.best # None /\ ctx.best[1] # <<>>
        /\ WellFormed(ctx)

Gate(ctx, min_support, min_prob, min_margin) ==
    /\ Supplied(ctx.n) >= min_support
    /\ Supplied(ctx.p) >= min_prob
    /\ Supplied(ctx.p) - Supplied(ctx.p2) >= min_margin

\* the thresholds of the resources, with the defaults of the code
MinSupportOf(th) == IF th = EmptyMap THEN 5 ELSE th["min_support"]

MinProbOf(th) == IF th = EmptyMap THEN 850 ELSE th["min_prob"]

MinMarginOf(th) == IF th = EmptyMap THEN 150 ELSE th["min_margin"]

\* p - p2 is exactly min_margin
OnMarginBoundary(ctx, th) == Supplied(ctx.p) - Supplied(ctx.p2) = MinMarginOf(th)

\* the two worked examples
WorkedExamples(ctx, th, d) ==
    MinSupportOf(th) = 5 =>
        /\ (ctx.p = Num(1000) /\ ctx.p2 = Num(0) /\ ctx.n = Num(1000)) => ~d.needs_review
        /\ (ctx.p = Num(1000) /\ ctx.p2 = Num(0) /\ ctx.n = Num(2)) => d.needs_review

C6_ConfidenceGate ==
    pc = "analyzed" =>
        \A j \in 1..Len(tokens) : \A i \in 0..(Len(tokens[j].text) - 1) :
            \A ctx \in CtxEntries :
                HasContextEntry(tokens[j], i, ctx) =>
                    LET d  == DecisionAt(tokens[j], i)
                        th == res.disambig_thresholds
                    IN  /\ d.chosen = ctx.best[1]
                        /\ d.confidence = (IF ctx.p = None THEN None ELSE Some(ctx.p[1].v))
                        /\ d.needs_review <=>
                              ~Gate(ctx, MinSupportOf(th), MinProbOf(th), MinMarginOf(th))
                        /\ WorkedExamples(ctx, th, d)

\* what holds instead: best, the confidence and the worked examples as stated;
\* needs_review is the negation of the test for every entry whose p - p2 is
\* not exactly min_margin, and on that boundary the float subtraction decides
C6_ConfidenceGateOffBoundary ==
    pc = "analyzed" =>
        \A j \in 1..Len(tokens) : \A i \in 0..(Len(tokens[j].text) - 1) :
            \A ctx \in CtxEntries :
                HasContextEntry(tokens[j], i, ctx) =>
                    LET d  == DecisionAt(tokens[j], i)
                        th == res.disambig_thresholds
                    IN  /\ d.chosen = ctx.best[1]
                        /\ d.confidence = (IF ctx.p = None THEN None ELSE Some(ctx.p[1].v))
                        /\ ~OnMarginBoundary(ctx, th) =>
                              (d.needs_review <=>
                                  ~Gate(ctx, MinSupportOf(th), MinProbOf(th), MinMarginOf(th)))
                        /\ OnMarginBoundary(ctx, th) =>
                              (d.needs_review <=>
                                  ~(/\ Gate(ctx, MinSupportOf(th), MinProbOf(th), MinMarginOf(th))
                                    /\ margin_reached(Supplied(ctx.p), Supplied(ctx.p2),
                                                      MinMarginOf(th))))
                        /\ WorkedExamples(ctx, th, d)

\* thresholds {5, 0.85, 0.15}, entry p = 1.0, p2 = 0.0, n = 1000: confident
C6_Witness ==
    /\ pc = "analyzed"
    /\ "min_support" \in DOMAIN res.disambig_thresholds
    /\ res.disambig_thresholds["min_support"] = 5
    /\ \E j \in 1..Len(tokens) : \E ctx \in CtxEntries :
        /\ HasContextEntry(tokens[j], 0, ctx)
        /\ ctx.p = Num(1000) /\ ctx.p2 = Num(0) /\ ctx.n = Num(1000)
        /\ ~DecisionAt(tokens[j], 0).needs_review
        /\ DecisionAt(tokens[j], 0).chosen = Py.hang

(***************************************************************************)
(* C7.  For every token whose text has an entry in the combined            *)
(* dictionary: if the entry's whitespace-separated syllable count equals   *)
(* the token's character count, character i is resolved to syllable i with *)
(* provenance word, confidence 1.0 and needs_review false, and no          *)
(* per-character lookup is made; if the counts differ, exactly one         *)
(* alignment-mismatch warning is recorded and every character of the token *)
(* is resolved by the per-character ladder instead.                        *)
(***************************************************************************)
\* the offsets (1-based) at which a syllable of the entry begins
SyllableStarts(entry) ==
    {k \in 1..Len(entry) : ~is_space(entry[k]) /\ (k = 1 \/ is_space(entry[k - 1]))}

\* the syllable that begins at offset k
SyllableFrom(entry, k) ==
    LET stops == {m \in k..Len(entry) : is_space(entry[m])}
        stop  == IF stops = {} THEN Len(entry) + 1 ELSE CHOOSE m \in stops : \A q \in stops : m <= q
    IN  SubSeq(entry, k, stop - 1)

\* the i-th (1-based) syllable of the entry
SyllableNo(entry, i) ==
    LET k == CHOOSE s \in SyllableStarts(entry) :
                 Cardinality({q \in SyllableStarts(entry) : q <= s}) = i
    IN  SyllableFrom(entry, k)

\* the outcome of the per-character ladder for one character
LadderDecision(d, ch) ==
    LET known == ch \in DOMAIN res.char_base /\ res.char_base[ch] # <<>>
    IN  /\ d.char = ch
        /\ ~known => d.resolved_by = "unknown" /\ d.chosen = <<ch>> /\ d.needs_review
        /\ (known /\ Len(res.char_base[ch]) = 1) =>
               d.resolved_by = "char_base" /\ d.chosen = res.char_base[ch][1] /\ ~d.needs_review
        /\ (known /\ Len(res.char_base[ch]) > 1) =>
               d.resolved_by \in {"polyphone_disambig", "fallback"} /\ d.candidates = res.char_base[ch]

MismatchWarnings(txt) ==
    Cardinality({k \in 1..Len(warnings) :
        warnings[k].type = "word_pinyin_alignment_mismatch" /\ warnings[k].token = txt})

C7_WordResolution ==
    pc = "analyzed" =>
        LET words == combined_word_pinyin(res)
        IN  \A j \in 1..Len(tokens) :
                LET tok == tokens[j]
                    n   == Len(tok.text)
                    ds  == token_decisions[<<tok.start, tok.end>>]
                IN  tok.text \in DOMAIN words =>
                        /\ Len(ds) = n
                        /\ IF Cardinality(SyllableStarts(words[tok.text])) = n
                           THEN /\ \A i \in 1..n :
                                    /\ ds[i].chosen = SyllableNo(words[tok.text], i)
                                    /\ ds[i].candidates = <<SyllableNo(words[tok.text], i)>>
                                    /\ ds[i].resolved_by = "word"
                                    /\ ds[i].confidence = Some(1000)
                                    /\ ~ds[i].needs_review
                                /\ MismatchWarnings(tok.text) = 0
                           ELSE /\ \A i \in 1..n : LadderDecision(ds[i], tok.text[i])
                                /\ MismatchWarnings(tok.text) =
                                       Cardinality({q \in 1..Len(tokens) : tokens[q].text = tok.text})

\* a token whose entry has more syllables than the token has characters,
\* resolved per character with one warning
C7_Witness ==
    /\ pc = "analyzed"
    /\ \E j \in 1..Len(tokens) :
        /\ tokens[j].text = <<CP.xing>>
        /\ <<CP.xing>> \in DOMAIN combined_word_pinyin(res)
        /\ Cardinality(SyllableStarts(combined_word_pinyin(res)[<<CP.xing>>])) = 2
        /\ DecisionAt(tokens[j], 0).resolved_by = "polyphone_disambig"
        /\ Len(warnings) = 1

(***************************************************************************)
(* SpecOverride: one or two override rules on tokens that contain 行, in   *)
(* both storage orders.                                                    *)
(***************************************************************************)
MaxOverrideChunks == 2

RuleIds == {<<>>, <<CP.a>>, <<CP.b>>}      \* "", "a", "b"

Occ(n) == [all |-> FALSE, n |-> n]

OccAll == [all |-> TRUE, n |-> 0]

RulePool ==
    {[id |-> Some(i), priority |-> Some(pr), match |-> m,
      target |-> Some([char |-> Some(<<CP.xing>>), occurrence |-> o]), choose |-> Some(c)] :
        i \in RuleIds, pr \in {10, 100}, m \in {EmptyMap},
        o \in {Occ(1), OccAll}, c \in {Py.xing, Py.hang, Py.lv}}

RuleLists ==
    {<<>>} \cup {<<r>> : r \in RulePool}
    \cup {pr \in RulePool \X RulePool : pr[1].id # pr[2].id}

InitOverride ==
    InitWith(ChunkTexts({<<CP.xing>>, <<CP.hao>>}, MaxOverrideChunks),
             {[BaseRes EXCEPT !.word_pinyin = w, !.overrides_rules = rs] :
                 w \in {EmptyMap, <<CP.xing, CP.xing>> :> (Py.xing \o <<CP.sp>> \o Py.xing)},
                 rs \in RuleLists},
             {BaseOpts})

SpecOverride == InitOverride /\ [][Next]_vars

\* the offsets (0-based) of the characters of tok equal to ch
PositionsOf(tok, ch) == {i \in 0..(Len(tok.text) - 1) : tok.text[i + 1] = ch}

\* token j, neighbours taken within its span
PrevInSpan(j) ==
    IF j > 1 /\ tokens[j - 1].span_id = tokens[j].span_id THEN Some(tokens[j - 1]) ELSE None

NextInSpan(j) ==
    IF j < Len(tokens) /\ tokens[j + 1].span_id = tokens[j].span_id THEN Some(tokens[j + 1]) ELSE None

\* the rule matches token j and its target and occurrence select offset i
Selects(rule, j, i) ==
    LET tok == tokens[j]
        ch  == tok.text[i + 1]
        occ == rule.target[1].occurrence
    IN  /\ rule.target[1].char = Some(<<ch>>)
        /\ rule_matches(rule, tok, PrevInSpan(j), NextInSpan(j))
        /\ \/ occ.all
           \/ occ.n >= 1 /\ Cardinality({q \in PositionsOf(tok, ch) : q <= i}) = occ.n

\* the value a rule chooses, as the override pass writes it
ValueOf(rule) == normalize_pinyin(rule.choose[1])

Prio(rule) == rule.priority[1]

\* the rule the sorted order processes first
ProcessedFirst(r1, r2) ==
    \/ Prio(r1) > Prio(r2)
    \/ Prio(r1) = Prio(r2) /\ StrLess(r1.id[1], r2.id[1])

\* two rules of the list with distinct ids that select offset i of token j
\* with different values
Disagree(r1, r2, j, i) ==
    /\ r1.id # r2.id
    /\ Selects(r1, j, i) /\ Selects(r2, j, i)
    /\ ValueOf(r1) # ValueOf(r2)

RulePairs == {<<a, b>> \in (1..Len(res.overrides_rules)) \X (1..Len(res.overrides_rules)) : a # b}

ConflictsAt(j, i) ==
    {k \in 1..Len(conflicts) :
        /\ conflicts[k].token_start = tokens[j].start /\ conflicts[k].token_end = tokens[j].end
        /\ conflicts[k].offset_in_token = i}

(***************************************************************************)
(* C3.  Given two override rules with distinct ids and different           *)
(* priorities that both match the same token and select the same character *)
(* position with different replacement values, the chosen value at that    *)
(* position after the override pass is the higher-priority rule's value,   *)
(* for either storage order of the two rules in the rule list.             *)
(***************************************************************************)
C3_HigherPriorityWins ==
    pc = "overridden" =>
        \A pr \in RulePairs : \A j \in 1..Len(tokens) : \A i \in 0..(Len(tokens[j].text) - 1) :
            LET r1 == res.overrides_rules[pr[1]]
                r2 == res.overrides_rules[pr[2]]
            IN  (Disagree(r1, r2, j, i) /\ Prio(r1) > Prio(r2)) =>
                    DecisionAt(tokens[j], i).chosen = ValueOf(r1)

(***************************************************************************)
(* C4.  When two override rules with distinct ids match the same token and *)
(* select the same character position with different values, the override  *)
(* pass produces exactly one conflict record for that position (naming the *)
(* existing rule id/value and the new rule id/value), sets the decision's  *)
(* conflict flag, and leaves the chosen value equal to that of the rule    *)
(* processed first in the sorted order (higher priority, or equal priority *)
(* and lexicographically smaller id).                                      *)
(***************************************************************************)
C4_OneConflictFirstWins ==
    pc = "overridden" =>
        \A pr \in RulePairs : \A j \in 1..Len(tokens) : \A i \in 0..(Len(tokens[j].text) - 1) :
            LET r1 == res.overrides_rules[pr[1]]
                r2 == res.overrides_rules[pr[2]]
                d  == DecisionAt(tokens[j], i)
            IN  (Disagree(r1, r2, j, i) /\ ProcessedFirst(r1, r2)) =>
                    /\ Cardinality(ConflictsAt(j, i)) = 1
                    /\ \A k \in ConflictsAt(j, i) :
                        /\ conflicts[k].existing_rule_id = r1.id[1]
                        /\ conflicts[k].existing_choose = ValueOf(r1)
                        /\ conflicts[k].new_rule_id = r2.id[1]
                        /\ conflicts[k].new_choose = ValueOf(r2)
                    /\ d.conflict
                    /\ d.chosen = ValueOf(r1)

(***************************************************************************)
(* SpecCompose: Han spans next to spans of every protected kind; the       *)
(* pinyin of 行 plain, with a trailing blank and with a leading blank.     *)
(***************************************************************************)
MaxComposeChunks == 3

ComposeChunks ==
    { <<CP.xing>>, <<CP.a>>, <<CP.one>>, <<CP.sp>>, <<CP.fwcolon>>,
      <<CP.h, CP.t, CP.t, CP.p, CP.colon, CP.slash, CP.slash, CP.x>> }   \* "http://x"

ComposeCharBases ==
    { CP.xing :> <<<<CP.x>>>>,              \* "x"
      CP.xing :> <<<<CP.x, CP.sp>>>>,       \* "x "
      CP.xing :> <<<<CP.sp, CP.x>>>> }      \* " x"

InitCompose ==
    InitWith(ChunkTexts(ComposeChunks, MaxComposeChunks),
             {[BaseRes EXCEPT !.word_pinyin = w, !.char_base = cb] :
                 w \in {EmptyMap, <<CP.xing, CP.xing>> :> <<CP.y, CP.sp, CP.y>>},
                 cb \in ComposeCharBases},
             {[BaseOpts EXCEPT !.word_like_spacing = b] : b \in BOOLEAN})

SpecCompose == InitCompose /\ [][Next]_vars

(***************************************************************************)
(* C9.  The output text is the concatenation, in span order, of each Han   *)
(* span's token pinyin joined by single spaces and each protected span's   *)
(* text verbatim, with, when word-like spacing is enabled, exactly one     *)
(* space inserted at every boundary where a Han span is directly adjacent  *)
(* (in either order) to a protected span of kind url, latin or number and  *)
(* neither side already has whitespace at the boundary; no space is        *)
(* inserted at any other boundary, and none at all when word-like spacing  *)
(* is disabled.                                                            *)
(***************************************************************************)
\* what span k contributes: the token pinyin joined by spaces, or the text
SpanOutput(k) ==
    IF spans[k].type = "han"
    THEN LET ts == TokensOfSpan(spans[k], tokens)
         IN  join_space([q \in 1..Len(ts) |-> Concat([i \in 1..Len(ts[q].text) |->
                                                        DecisionAt(ts[q], i - 1).chosen])])
    ELSE spans[k].text

WordLike(k) == spans[k].type = "protected" /\ spans[k].kind \in {"url", "latin", "number"}

\* a space belongs between span k and span k + 1
SpaceAfter(k) ==
    /\ opts.word_like_spacing
    /\ \/ spans[k].type = "han" /\ WordLike(k + 1)
       \/ WordLike(k) /\ spans[k + 1].type = "han"
    /\ ~ends_with_blank(SpanOutput(k))
    /\ ~starts_with_blank(SpanOutput(k + 1))

ExpectedOutput ==
    Concat([k \in 1..Len(spans) |->
        SpanOutput(k) \o (IF k < Len(spans) /\ SpaceAfter(k) THEN <<CP.sp>> ELSE <<>>)])

C9_OutputSpacing == pc = "done" => result[1].output_text = ExpectedOutput

\* the same statement for the runs in which no Han output begins with a blank
C9_OutputSpacingNoLeadingBlank ==
    (pc = "done" /\ \A k \in 1..Len(spans) : spans[k].type = "han" => ~starts_with_blank(SpanOutput(k)))
        => result[1].output_text = ExpectedOutput

(***************************************************************************)
(* C10.  For every input text that contains no Han character, pinyinize    *)
(* returns an output text equal to the input, with word-like spacing       *)
(* enabled or disabled, and produces no tokens.                            *)
(***************************************************************************)
NoHan(str) == \A k \in 1..Len(str) : ~is_han(str[k])

C10_NoHanIdentity ==
    (pc = "done" /\ NoHan(text)) =>
        /\ result[1].output_text = text
        /\ result[1].report.tokens = <<>>
        /\ tokens = <<>>

\* a number directly followed by a Latin word, spacing enabled
C10_Witness ==
    /\ pc = "done" /\ NoHan(text) /\ opts.word_like_spacing
    /\ Len(spans) >= 2
    /\ \E k \in 1..(Len(spans) - 1) : spans[k].kind = "number" /\ spans[k + 1].kind = "latin"
    /\ result[1].output_text = text

(***************************************************************************)
(* Spec: the whole pipeline, twice, with rules, both adapters and the      *)
(* spacing option.                                                         *)
(***************************************************************************)
MaxChunks == 2

RuleFor(id, prio, value) ==
    [id |-> Some(id), priority |-> Some(prio), match |-> ("self" :> ("contains" :> <<<<CP.xing>>>>)),
     target |-> Some([char |-> Some(<<CP.xing>>), occurrence |-> Occ(1)]), choose |-> Some(value)]

FullRuleLists ==
    { <<>>,
      <<RuleFor(<<CP.a>>, 10, Py.hang)>>,
      <<RuleFor(<<CP.a>>, 10, Py.hang), RuleFor(<<CP.b>>, 100, Py.lv)>> }

FullDisambig ==
    { EmptyMap,
      CP.xing :> [default |-> None, candidates |-> <<Py.xing, Py.hang>>,
                  contexts |-> (context_key("VERB", "O") :>
                                   [best |-> Some(Py.xing), p |-> Num(1000), p2 |-> Num(0), n |-> Num(1000)])] }

FullTagAdapters ==
    { NoAdapter, [kind |-> "raises"],
      [kind |-> "ok", warnings |-> <<>>,
       spans |-> <<RespEntry("S0", <<RespToken(<<CP.xing>>, "VERB", "VV", "O")>>)>>] }

CheckItem(sid, idx, off, rec, needs_user) ==
    [is_dict |-> TRUE, span_id |-> Some(sid), token_index |-> Some(idx),
     char_offset_in_token |-> Some(off), char |-> None, recommended |-> rec,
     reason |-> Some("context"), needs_user |-> needs_user]

FullCheckAdapters ==
    { NoAdapter, [kind |-> "raises"],
      [kind |-> "ok", items |-> <<CheckItem("S0", 0, 0, Some(Py.lv), FALSE)>>],
      [kind |-> "ok", items |-> <<CheckItem("S0", 0, 0, None, TRUE), CheckItem("S9", 0, 0, None, FALSE)>>] }

Init ==
    InitWith(ChunkTexts({<<CP.xing>>, <<CP.yin>>, <<CP.a>>}, MaxChunks),
             {[BaseRes EXCEPT !.overrides_rules = rs, !.polyphone_disambig = t] :
                 rs \in FullRuleLists, t \in FullDisambig},
             {[BaseOpts EXCEPT !.word_like_spacing = b, !.llm_adapter = la, !.double_check_adapter = da] :
                 b \in BOOLEAN, la \in FullTagAdapters, da \in FullCheckAdapters})

Spec == Init /\ [][Next]_vars

(***************************************************************************)
(* C5.  Running pinyinize twice on the same input text with the same       *)
(* resources, rules and options (no advisory adapter, or an adapter that   *)
(* returns the same responses) yields identical output text and an         *)
(* identical report, including every per-character decision, applied      *)
(* override, conflict and warning.                                         *)
(***************************************************************************)
C5_SecondRunIdentical ==
    (pc = "done" /\ run > 1) => result = first_result

\* a second run that applied an override, after a double check that changed a decision
C5_Witness ==
    /\ pc = "done" /\ run = 2 /\ result = first_result
    /\ result[1].report.applied_overrides # <<>>
    /\ result[1].report.llm_double_check.used
    /\ result[1].report.llm_double_check.applied # Some(<<>>)
    /\ result[1].report.llm_segment_and_tag.used

(***************************************************************************)
(* C11.  If the advisory tagging adapter lacks a callable segment_and_tag,  *)
(* raises any exception, returns a non-object, or returns an object        *)
(* without a list of spans, tokenization does not raise: it returns for    *)
(* every Han span exactly the tokens the no-adapter fallback would return, *)
(* and the tagging metadata has used=true and an error entry.              *)
(***************************************************************************)
AdapterFails == opts.llm_adapter.kind \in {"no_method", "raises", "not_object", "missing_spans"}

HasHanSpan == \E k \in 1..Len(spans) : spans[k].type = "han"

\* what tokenization returns when no adapter is configured
NoAdapterTokens ==
    _tokens_from_spans_llm_or_fallback(spans, combined_word_pinyin(res), NoAdapter).tokens

FailureFallsBack ==
    /\ tokens = NoAdapterTokens
    /\ \A k \in 1..Len(spans) : spans[k].type = "han" =>
          /\ TokensOfSpan(spans[k], tokens) # <<>>
          /\ \A j \in 1..Len(TokensOfSpan(spans[k], tokens)) :
                /\ TokensOfSpan(spans[k], tokens)[j].upos = "X"
                /\ TokensOfSpan(spans[k], tokens)[j].ner = "O"
    /\ llm_meta.used
    /\ llm_meta.error # None

\* the statement as written: for every text
C11_AdapterFailureFallsBack == (Tokenized /\ AdapterFails) => FailureFallsBack

\* C11 for the texts that have a Han span (the adapter is not consulted, and
\* used=false, when there is none)
C11_AdapterFailureFallsBackHan == (Tokenized /\ AdapterFails /\ HasHanSpan) => FailureFallsBack

\* an adapter that raises, asked about two Han spans
C11_Witness ==
    /\ pc = "tokenized" /\ opts.llm_adapter.kind = "raises"
    /\ Cardinality({k \in 1..Len(spans) : spans[k].type = "han"}) >= 2
    /\ llm_meta.used /\ llm_meta.error = Some("llm_segment_and_tag_exception")
    /\ tokens = NoAdapterTokens /\ Len(tokens) >= 2

(***************************************************************************)
(* C12.  With a well-formed advisory tagging response, each Han span is    *)
(* validated on its own: a span is tokenized by Forward Maximum Matching   *)
(* and its id is listed in invalid_spans exactly when its response entry   *)
(* is missing or empty, or some token has an empty text, a upos outside    *)
(* the 17-value set, an empty xpos, or a ner outside the 5-value set, or   *)
(* the token texts do not concatenate to the span text; every other Han    *)
(* span keeps exactly the advisory tokens and tags, regardless of how many *)
(* other spans failed.                                                     *)
(***************************************************************************)
\* the token objects the response gives for span id sid: those of its last
\* entry that has a span id and a token list; <<>> when there is none
EntryFor(resp_spans, sid) ==
    LET hits == {k \in 1..Len(resp_spans) :
                    /\ resp_spans[k].is_dict /\ resp_spans[k].span_id = Some(sid)
                    /\ resp_spans[k].tokens # None}
        IsObject(t) == t.is_dict
    IN  IF hits = {} THEN <<>> ELSE SelectSeq(resp_spans[SetMax(hits)].tokens[1], IsObject)

FieldOr(f, dflt) == IF f = None THEN dflt ELSE f[1]

\* the conditions of the claim under which a span is rejected
SpanRejected(sp, entry) ==
    \/ entry = <<>>
    \/ \E k \in 1..Len(entry) :
          \/ FieldOr(entry[k].text, <<>>) = <<>>
          \/ FieldOr(entry[k].upos, "") \notin _ALLOWED_UPOS
          \/ FieldOr(entry[k].xpos, "") = ""
          \/ FieldOr(entry[k].ner, "") \notin _ALLOWED_NER
    \/ Concat([k \in 1..Len(entry) |-> FieldOr(entry[k].text, <<>>)]) # sp.text

\* the tokens of the span carry exactly the texts and tags of the entry
KeepsAdvisory(ts, entry) ==
    /\ Len(ts) = Len(entry)
    /\ \A k \in 1..Len(ts) :
          /\ ts[k].text = entry[k].text[1] /\ ts[k].upos = entry[k].upos[1]
          /\ ts[k].xpos = entry[k].xpos[1] /\ ts[k].ner = entry[k].ner[1]

C12_PerSpanValidation ==
    (Tokenized /\ opts.llm_adapter.kind = "ok" /\ HasHanSpan) =>
        /\ llm_meta.used /\ llm_meta.error = None /\ llm_meta.invalid_spans # None
        /\ \A k \in 1..Len(spans) : spans[k].type = "han" =>
              LET sp    == spans[k]
                  entry == EntryFor(opts.llm_adapter.spans, sp.span_id)
                  ts    == TokensOfSpan(sp, tokens)
                  listed == \E q \in 1..Len(llm_meta.invalid_spans[1]) :
                                llm_meta.invalid_spans[1][q] = sp.span_id
              IN  IF SpanRejected(sp, entry)
                  THEN listed /\ ts = TokensOfSpan(sp, NoAdapterTokens)
                  ELSE ~listed /\ KeepsAdvisory(ts, entry)

\* the first Han span is rejected and the second keeps its advisory token
C12_Witness ==
    /\ pc = "tokenized" /\ opts.llm_adapter.kind = "ok"
    /\ llm_meta.invalid_spans = Some(<<"S0">>)
    /\ EntryFor(opts.llm_adapter.spans, "S0") # <<>>
    /\ \E j \in 1..Len(tokens) : tokens[j].span_id = "S0" /\ tokens[j].upos = "X"
    /\ \E j \in 1..Len(tokens) : tokens[j].span_id = "S2" /\ tokens[j].upos = "VERB"

(***************************************************************************)
(* FairSpec: the full pipeline with each kind of tagging and double-check  *)
(* adapter, every step of an invocation eventually taken (pinyinize is one *)
(* synchronous function: each step is followed by the next).               *)
(***************************************************************************)
\* "", "a", 行行, 行a行
FairTexts == {<<>>, <<CP.a>>, <<CP.xing, CP.xing>>, <<CP.xing, CP.a, CP.xing>>}

FairAdapterKinds == {"none", "no_method", "raises", "not_object"}

FairInit ==
    InitWith(FairTexts,
             {BaseRes, [BaseRes EXCEPT !.overrides_rules = <<RuleFor(<<CP.a>>, 10, Py.hang)>>]},
             {[BaseOpts EXCEPT !.llm_adapter = la, !.double_check_adapter = da] :
                 la \in {[kind |-> k] : k \in FairAdapterKinds}
                        \cup {[kind |-> "ok", warnings |-> <<>>,
                               spans |-> <<RespEntry("S0", <<RespToken(<<CP.xing>>, "VERB", "VV", "O")>>)>>]},
                 da \in {[kind |-> k] : k \in FairAdapterKinds}
                        \cup {[kind |-> "ok", items |-> <<CheckItem("S0", 0, 0, Some(Py.lv), FALSE)>>]}})

FairSpec == FairInit /\ [][Next]_vars /\ WF_vars(Next)

(***************************************************************************)
(* C13.  In one pinyinize invocation the tagging adapter is called at most *)
(* once, and only when an adapter is configured and at least one Han span  *)
(* exists; the double-check adapter is called at most once, only after the *)
(* whole override pass has finished, and only when an adapter is           *)
(* configured and the review list is non-empty (otherwise the double-check *)
(* metadata has used=false); a call that fails is never retried, and       *)
(* output and report are produced in every case.                           *)
(***************************************************************************)
OverridePassDone == pc \in {"overridden", "checked", "done"}

DoubleCheckDone == pc \in {"checked", "done"}

CallDiscipline ==
    /\ calls.segment_and_tag <= 1
    /\ calls.segment_and_tag = 1 => (opts.llm_adapter.kind # "none" /\ HasHanSpan)
    /\ calls.double_check <= 1
    /\ calls.double_check = 1 =>
          /\ OverridePassDone
          /\ opts.double_check_adapter.kind # "none"
          /\ review_items_before # <<>>
    /\ (DoubleCheckDone /\ (opts.double_check_adapter.kind = "none" \/ review_items_before = <<>>)) =>
          (~double_check_meta.used /\ calls.double_check = 0)
    /\ pc = "done" => result # None

C13_AdaptersCalledAtMostOnce == [](CallDiscipline) /\ ((pc = "start") ~> (pc = "done"))

\* both adapters raised: each was called once, and the result is there
C13_Witness ==
    /\ pc = "done" /\ result # None
    /\ opts.llm_adapter.kind = "raises" /\ opts.double_check_adapter.kind = "raises"
    /\ calls = [segment_and_tag |-> 1, double_check |-> 1]
    /\ llm_meta.error # None /\ double_check_meta.error # None

(***************************************************************************)
(* SpecCheck: the double check.  Texts over 行 (two candidates, no context  *)
(* entry: listed for review), 好 (one candidate) and a Latin letter; every  *)
(* kind of double-check adapter, the answering ones with every sequence of *)
(* at most MaxCheckItems items of the pool.                                *)
(***************************************************************************)
MaxCheckChunks == 2

MaxCheckItems == 2

CheckItemPool ==
    { CheckItem("S0", 0, 0, Some(Py.lv), FALSE),      \* a recommendation for token 0
      CheckItem("S0", 0, 0, Some(Py.hang), TRUE),     \* token 0 needs the user, with a recommendation
      CheckItem("S0", 1, 0, None, TRUE),              \* token 1 needs the user
      CheckItem("S0", 1, 0, Some(Py.hang), FALSE),    \* a recommendation for token 1
      CheckItem("S9", 0, 0, Some(Py.lv), FALSE),      \* unknown span id
      CheckItem("S0", 7, 0, Some(Py.hang), FALSE),    \* unknown token index
      CheckItem("S0", 0, 5, Some(Py.lv), FALSE) }     \* character offset out of range

CheckAdapters ==
    {[kind |-> k] : k \in {"none", "no_method", "raises", "not_object", "missing_items"}}
    \cup {[kind |-> "ok", items |-> its] : its \in SeqsUpTo(CheckItemPool, MaxCheckItems)}

InitCheck ==
    InitWith(ChunkTexts({<<CP.xing>>, <<CP.hao>>, <<CP.a>>}, MaxCheckChunks),
             {BaseRes},
             {[BaseOpts EXCEPT !.double_check_adapter = da] : da \in CheckAdapters})

SpecCheck == InitCheck /\ [][Next]_vars

\* the decisions as the override pass leaves them, recomputed from the inputs
DecisionsBeforeCheck ==
    _apply_overrides(tokens, analyze_all(tokens, combined_word_pinyin(res), res).decisions,
                     res.overrides_rules).decisions

\* the same run with the double-check adapter adp in place of the configured one
DecisionsWith(adp) ==
    _apply_llm_double_check(adp, tokens, DecisionsBeforeCheck, review_items_before).decisions

DoubleCheckCalled == calls.double_check = 1

(***************************************************************************)
(* C14.  If the double-check call raises any exception, returns a          *)
(* non-object, or returns an object without a list of items, no decision   *)
(* is modified: every decision's chosen value, provenance, needs_review    *)
(* flag and notes, and the output text, equal those of the same run with   *)
(* no double-check adapter, and the error is recorded in the double-check  *)
(* metadata.                                                               *)
(***************************************************************************)
DoubleCheckFails == opts.double_check_adapter.kind \in {"raises", "not_object", "missing_items"}

C14_FailedCheckChangesNothing ==
    (pc = "done" /\ DoubleCheckCalled /\ DoubleCheckFails) =>
        /\ token_decisions = DecisionsWith(NoAdapter)
        /\ result[1].report.tokens = report_tokens(tokens, DecisionsWith(NoAdapter))
        /\ result[1].output_text =
              output_text_of(spans, tokens, DecisionsWith(NoAdapter), opts.word_like_spacing)
        /\ double_check_meta.used /\ double_check_meta.error # None
        /\ result[1].report.llm_double_check.error # None

\* a call that raised, with a decision still waiting for review
C14_Witness ==
    /\ pc = "done" /\ DoubleCheckCalled /\ opts.double_check_adapter.kind = "raises"
    /\ double_check_meta.error = Some("llm_double_check_exception")
    /\ \E j \in 1..Len(tokens) : DecisionAt(tokens[j], 0).needs_review
    /\ token_decisions = DecisionsWith(NoAdapter)

(***************************************************************************)
(* C15.  A double-check response item that names an unknown (span id,      *)
(* token index) pair or a character offset outside the token's decisions   *)
(* is skipped with a warning and never raises; it changes no decision, and *)
(* the valid items before and after it in the same response are still      *)
(* applied.                                                                *)
(***************************************************************************)
\* the item names no token, or an offset outside the token
Dangling(it) ==
    LET hit == {k \in 1..Len(tokens) : /\ tokens[k].span_id = it.span_id[1]
                                       /\ tokens[k].index_in_span = it.token_index[1]}
    IN  \/ hit = {}
        \/ \E k \in hit : ~(0 <= it.char_offset_in_token[1]
                            /\ it.char_offset_in_token[1] < Len(tokens[k].text))

\* the configured response without its dangling items
WithoutDangling ==
    LET Sound(it) == ~Dangling(it)
    IN  [kind |-> "ok", items |-> SelectSeq(opts.double_check_adapter.items, Sound)]

NumDangling ==
    Cardinality({k \in 1..Len(opts.double_check_adapter.items) :
                    Dangling(opts.double_check_adapter.items[k])})

CheckWith(adp) == _apply_llm_double_check(adp, tokens, DecisionsBeforeCheck, review_items_before)

C15_DanglingItemSkipped ==
    (pc = "done" /\ DoubleCheckCalled /\ opts.double_check_adapter.kind = "ok") =>
        /\ token_decisions = CheckWith(WithoutDangling).decisions
        /\ double_check_meta.applied = CheckWith(WithoutDangling).meta.applied
        /\ double_check_meta.needs_user = CheckWith(WithoutDangling).meta.needs_user
        /\ double_check_meta.error = None
        /\ Len(double_check_meta.warnings[1]) = NumDangling
        /\ WithoutDangling.items = <<>> => token_decisions = DecisionsWith(NoAdapter)
        /\ result # None

\* a dangling item followed by a recommendation that is applied
C15_Witness ==
    /\ pc = "done" /\ DoubleCheckCalled /\ opts.double_check_adapter.kind = "ok"
    /\ Len(opts.double_check_adapter.items) = 2
    /\ Dangling(opts.double_check_adapter.items[1])
    /\ ~Dangling(opts.double_check_adapter.items[2])
    /\ Len(double_check_meta.warnings[1]) = 1
    /\ Len(double_check_meta.applied[1]) = 1
    /\ DecisionAt(tokens[1], 0).resolved_by = "llm_double_check"

(***************************************************************************)
(* C16.  For every decision that a double-check response item flags as     *)
(* needing human input (needs_user), for any sequence of response items,   *)
(* the final report shows that decision with needs_review=true and a       *)
(* chosen value not replaced by the advisory (even when the item also      *)
(* carries a recommended value), and the decision is listed in the         *)
(* needs_user report list.                                                 *)
(***************************************************************************)
\* the decision of the final report that item it addresses
ReportedDecision(it) ==
    LET j == CHOOSE k \in 1..Len(result[1].report.tokens) :
                 /\ result[1].report.tokens[k].span_id = it.span_id[1]
                 /\ result[1].report.tokens[k].index_in_span = it.token_index[1]
    IN  result[1].report.tokens[j].char_decisions[it.char_offset_in_token[1] + 1]

\* the same decision as the override pass left it
DecisionBeforeCheck(it) ==
    LET j == CHOOSE k \in 1..Len(tokens) :
                 tokens[k].span_id = it.span_id[1] /\ tokens[k].index_in_span = it.token_index[1]
    IN  DecisionsBeforeCheck[<<tokens[j].start, tokens[j].end>>][it.char_offset_in_token[1] + 1]

ListedForUser(it) ==
    \E q \in 1..Len(double_check_meta.needs_user[1]) :
        /\ double_check_meta.needs_user[1][q].span_id = it.span_id[1]
        /\ double_check_meta.needs_user[1][q].token_index = it.token_index[1]
        /\ double_check_meta.needs_user[1][q].char_offset_in_token = it.char_offset_in_token[1]

FlaggedStaysForUser(it) ==
    /\ ReportedDecision(it).needs_review
    /\ ReportedDecision(it).chosen = DecisionBeforeCheck(it).chosen
    /\ ReportedDecision(it).resolved_by # "llm_double_check"
    /\ ListedForUser(it)

SameDecision(a, b) ==
    /\ a.span_id = b.span_id /\ a.token_index = b.token_index
    /\ a.char_offset_in_token = b.char_offset_in_token

C16_NeedsUserStaysInReview ==
    (pc = "done" /\ DoubleCheckCalled /\ opts.double_check_adapter.kind = "ok") =>
        \A k \in 1..Len(opts.double_check_adapter.items) :
            LET it == opts.double_check_adapter.items[k]
            IN  (it.needs_user /\ ~Dangling(it)) => FlaggedStaysForUser(it)

\* the same statement for the items that are alone in addressing their decision
C16_NeedsUserStaysInReviewSingleItem ==
    (pc = "done" /\ DoubleCheckCalled /\ opts.double_check_adapter.kind = "ok") =>
        \A k \in 1..Len(opts.double_check_adapter.items) :
            LET it == opts.double_check_adapter.items[k]
                alone == \A q \in 1..Len(opts.double_check_adapter.items) :
                            (q # k /\ ~opts.double_check_adapter.items[q].needs_user)
                                => ~SameDecision(opts.double_check_adapter.items[q], it)
            IN  (it.needs_user /\ ~Dangling(it) /\ alone) => FlaggedStaysForUser(it)

(***************************************************************************)
(* C17.  The report's unresolved flag is true whenever review items remain *)
(* after the double-check step (the final needs_review_items list is       *)
(* non-empty), whether the double-check was skipped, failed, or completed  *)
(* without error, and false when no review items remain.                   *)
(***************************************************************************)
ReviewItemsRemain == result[1].report.needs_review_items # <<>>

C17_UnresolvedFlag ==
    pc = "done" => (result[1].report.unresolved_fallback <=> ReviewItemsRemain)

\* the same statement for the runs whose double check was skipped or failed
C17_UnresolvedFlagCheckNotCompleted ==
    (pc = "done" /\ (~double_check_meta.used \/ double_check_meta.error # None)) =>
        (result[1].report.unresolved_fallback <=> ReviewItemsRemain)

\* no review items remain: the flag is false
C17_UnresolvedFlagNothingLeft ==
    (pc = "done" /\ ~ReviewItemsRemain) => ~result[1].report.unresolved_fallback

(***************************************************************************)
(* C18.  For a character with two or more char-base candidates and no      *)
(* context entry for the token's pos/ner key: the chosen value is the      *)
(* polyphone table's declared default when one exists, otherwise the first *)
(* candidate; the provenance is fallback whenever the first candidate was  *)
(* used and polyphone_disambig only when the declared default was used;    *)
(* confidence is unset and needs_review is true.                           *)
(***************************************************************************)
\* character i of tok goes down the per-character ladder as a polyphone and
\* finds no context entry for the token's key
NoContextEntry(tok, i) ==
    LET ch == tok.text[i + 1]
    IN  /\ ~WordResolved(tok, combined_word_pinyin(res))
        /\ ch \in DOMAIN res.char_base /\ Len(res.char_base[ch]) >= 2
        /\ \/ ch \notin DOMAIN res.polyphone_disambig
           \/ context_key(tok.upos, tok.ner) \notin DOMAIN res.polyphone_disambig[ch].contexts

\* the table of ch declares a (non-empty) default
DeclaredDefault(ch) ==
    IF ch \in DOMAIN res.polyphone_disambig
          /\ res.polyphone_disambig[ch].default # None
          /\ res.polyphone_disambig[ch].default[1] # <<>>
    THEN res.polyphone_disambig[ch].default
    ELSE None

\* the table of ch lists candidates of its own
TableCandidates(ch) ==
    IF ch \in DOMAIN res.polyphone_disambig THEN res.polyphone_disambig[ch].candidates ELSE <<>>

\* the first candidate of ch: of the table's own list when it has one, of the
\* char-base list in any case
FirstCandidates(ch) ==
    {res.char_base[ch][1]}
        \cup (IF TableCandidates(ch) # <<>> THEN {TableCandidates(ch)[1]} ELSE {})

DefaultOrFirstCandidate(tok, i) ==
    LET ch == tok.text[i + 1]
        d  == DecisionAt(tok, i)
    IN  /\ d.chosen \in (IF DeclaredDefault(ch) # None THEN {DeclaredDefault(ch)[1]}
                         ELSE FirstCandidates(ch))
        /\ d.resolved_by = (IF DeclaredDefault(ch) # None THEN "polyphone_disambig" ELSE "fallback")
        /\ d.confidence = None
        /\ d.needs_review

C18_NoContextDefault ==
    pc = "analyzed" =>
        \A j \in 1..Len(tokens) : \A i \in 0..(Len(tokens[j].text) - 1) :
            NoContextEntry(tokens[j], i) => DefaultOrFirstCandidate(tokens[j], i)

\* the same statement for the characters whose table lists no candidates
C18_NoContextDefaultNoTableCandidates ==
    pc = "analyzed" =>
        \A j \in 1..Len(tokens) : \A i \in 0..(Len(tokens[j].text) - 1) :
            (NoContextEntry(tokens[j], i)
                /\ (DeclaredDefault(tokens[j].text[i + 1]) # None
                    \/ TableCandidates(tokens[j].text[i + 1]) = <<>>))
              => DefaultOrFirstCandidate(tokens[j], i)

(***************************************************************************)
(* SpecNeighbour: rules with prev and next criteria on texts of several    *)
(* Han spans separated by a Latin letter.                                  *)
(***************************************************************************)
MaxNeighbourChunks == 4

\* no criterion, the text 行, the pattern ^好
NeighbourParts == {EmptyMap, "text" :> <<CP.xing>>, "regex" :> <<CP.caret, CP.hao>>}

NeighbourMatches ==
    {EmptyMap}
    \cup {"prev" :> p : p \in NeighbourParts}
    \cup {"next" :> p : p \in NeighbourParts}
    \cup {("prev" :> EmptyMap) @@ ("next" :> EmptyMap)}

NeighbourRule(id, ch, m) ==
    [id |-> Some(id), priority |-> Some(10), match |-> m,
     target |-> Some([char |-> Some(<<ch>>), occurrence |-> Occ(1)]), choose |-> Some(Py.lv)]

\* at most one rule for 行 (id "a") and one for 好 (id "b")
NeighbourRuleLists ==
    LET A == {NeighbourRule(<<CP.a>>, CP.xing, m) : m \in NeighbourMatches}
        B == {NeighbourRule(<<CP.b>>, CP.hao, m) : m \in NeighbourMatches}
    IN  {<<>>} \cup {<<r>> : r \in A \cup B} \cup (A \X B)

InitNeighbour ==
    InitWith(ChunkTexts({<<CP.xing>>, <<CP.hao>>, <<CP.a>>}, MaxNeighbourChunks),
             {[BaseRes EXCEPT !.overrides_rules = rs] : rs \in NeighbourRuleLists},
             {BaseOpts})

SpecNeighbour == InitNeighbour /\ [][Next]_vars

\* the override pass left a trace of the rule at token j: an applied record,
\* a decision carrying its id, or a conflict raised by it
TracesAt(rule, j) ==
    LET tok == tokens[j]
        rid == rule.id[1]
    IN  \/ \E k \in 1..Len(applied_rules) :
              applied_rules[k].rule_id = rid /\ applied_rules[k].token_start = tok.start
        \/ \E i \in 0..(Len(tok.text) - 1) : DecisionAt(tok, i).rule_id = Some(rid)
        \/ \E k \in 1..Len(conflicts) :
              conflicts[k].new_rule_id = rid /\ conflicts[k].token_start = tok.start

HasPrevCriterion(rule) == "prev" \in DOMAIN rule.match

HasNextCriterion(rule) == "next" \in DOMAIN rule.match

\* token j-1 (j+1) of the token list belongs to another Han span
OtherSpanBefore(j) == j > 1 /\ tokens[j - 1].span_id # tokens[j].span_id

OtherSpanAfter(j) == j < Len(tokens) /\ tokens[j + 1].span_id # tokens[j].span_id

(***************************************************************************)
(* C19.  During the override pass the previous and next token of a token   *)
(* are taken only from the same Han span: a rule with a prev criterion     *)
(* never applies at the first token of a span and a rule with a next       *)
(* criterion never applies at the last token of a span, even when another  *)
(* Han span's token lies just before or after it in the text; a rule with  *)
(* no prev/next criterion is unaffected by neighbours.                     *)
(***************************************************************************)
C19_NeighboursWithinSpan ==
    pc = "overridden" =>
        \A k \in 1..Len(res.overrides_rules) : \A j \in 1..Len(tokens) :
            LET rule == res.overrides_rules[k]
            IN  /\ (HasPrevCriterion(rule) /\ PrevInSpan(j) = None) => ~TracesAt(rule, j)
                /\ (HasNextCriterion(rule) /\ NextInSpan(j) = None) => ~TracesAt(rule, j)
                /\ (~HasPrevCriterion(rule) /\ ~HasNextCriterion(rule)) =>
                       \A i \in 0..(Len(tokens[j].text) - 1) :
                           Selects(rule, j, i) <=>
                               (DecisionAt(tokens[j], i).rule_id = Some(rule.id[1])
                                   /\ DecisionAt(tokens[j], i).chosen = ValueOf(rule))

\* a rule whose prev (next) criterion accepts the token of the neighbouring
\* Han span left the first (last) token of a span alone, and applied at a
\* token whose neighbour lies in the same span
C19_Witness ==
    /\ pc = "overridden"
    /\ \E k \in 1..Len(res.overrides_rules) : \E j \in 1..Len(tokens) :
           LET rule == res.overrides_rules[k]
           IN  /\ HasPrevCriterion(rule) /\ OtherSpanBefore(j)
               /\ _match_part(rule.match["prev"], tokens[j - 1])
               /\ IsSubstr(rule.target[1].char[1], tokens[j].text)
               /\ ~TracesAt(rule, j)
               /\ \E j2 \in 1..Len(tokens) : TracesAt(rule, j2)
    /\ \E k \in 1..Len(res.overrides_rules) : \E j \in 1..Len(tokens) :
           LET rule == res.overrides_rules[k]
           IN  /\ HasNextCriterion(rule) /\ OtherSpanAfter(j)
               /\ IsSubstr(rule.target[1].char[1], tokens[j].text)
               /\ ~TracesAt(rule, j)

(***************************************************************************)
(* SpecOccurrence: one or two rules for 行 with occurrence 1, 2, 3 or      *)
(* "all" on tokens that hold 行 once, twice or three times.                *)
(***************************************************************************)
MaxOccurrenceChunks == 3

XingXingHao == <<CP.xing, CP.xing, CP.hao>>

\* dictionaries that make 行行好, 行行 and 行行行 single tokens; the value of
\* 行行 has one syllable, so that token is resolved character by character
OccurrenceWords ==
    {EmptyMap,
     XingXingHao :> (Py.xing \o <<CP.sp>> \o Py.xing \o <<CP.sp>> \o Py.hao),
     <<CP.xing, CP.xing>> :> Py.xing,
     <<CP.xing, CP.xing, CP.xing>> :> (Py.hang \o <<CP.sp>> \o Py.hang \o <<CP.sp>> \o Py.hang)}

OccurrenceMatches == {EmptyMap, "self" :> ("text" :> XingXingHao)}

OccurrenceRule(id, m, o, c) ==
    [id |-> Some(id), priority |-> Some(100), match |-> m,
     target |-> Some([char |-> Some(<<CP.xing>>), occurrence |-> o]), choose |-> Some(c)]

Occurrences == {Occ(1), Occ(2), Occ(3), OccAll}

OccurrenceRuleLists ==
    {<<>>}
    \cup {<<OccurrenceRule(<<CP.a>>, m, o, c)>> :
            m \in OccurrenceMatches, o \in Occurrences, c \in {Py.xing, Py.hang, Py.lv}}
    \cup {<<OccurrenceRule(<<CP.a>>, m, o1, c1), OccurrenceRule(<<CP.b>>, m, o2, c2)>> :
            m \in OccurrenceMatches, o1 \in Occurrences, o2 \in Occurrences,
            c1 \in {Py.xing, Py.hang, Py.lv}, c2 \in {Py.hang, Py.lv}}

InitOccurrence ==
    InitWith(ChunkTexts({<<CP.xing>>, <<CP.hao>>}, MaxOccurrenceChunks),
             {[BaseRes EXCEPT !.word_pinyin = w, !.overrides_rules = rs] :
                 w \in OccurrenceWords, rs \in OccurrenceRuleLists},
             {BaseOpts})

SpecOccurrence == InitOccurrence /\ [][Next]_vars

\* the result of the per-token analysis, recomputed from the inputs
AnalysisBeforeOverride == analyze_all(tokens, combined_word_pinyin(res), res)

DecisionBeforeOverride(tok, i) == AnalysisBeforeOverride.decisions[<<tok.start, tok.end>>][i + 1]

\* the override pass changed the decision of character i of token j
Touched(j, i) == DecisionAt(tokens[j], i) # DecisionBeforeOverride(tokens[j], i)

RulesOf == {res.overrides_rules[k] : k \in 1..Len(res.overrides_rules)}

\* the rules that select character i of token j
Selecting(j, i) == {r \in RulesOf : Selects(r, j, i)}

\* the rule matches token j but asks for an occurrence the token does not have
OccurrenceBeyond(rule, j) ==
    /\ rule_matches(rule, tokens[j], PrevInSpan(j), NextInSpan(j))
    /\ PositionsOf(tokens[j], rule.target[1].char[1][1]) # {}
    /\ ~rule.target[1].occurrence.all
    /\ rule.target[1].occurrence.n > Cardinality(PositionsOf(tokens[j], rule.target[1].char[1][1]))

\* an applied record or a conflict of the rule at token j
RecordsAt(rule, j) ==
    \/ \E k \in 1..Len(applied_rules) :
          applied_rules[k].rule_id = rule.id[1] /\ applied_rules[k].token_start = tokens[j].start
    \/ \E k \in 1..Len(conflicts) :
          conflicts[k].new_rule_id = rule.id[1] /\ conflicts[k].token_start = tokens[j].start

\* rules occurrence 1 -> xíng and occurrence 2 -> háng are in the list
ExampleRules ==
    /\ \E r \in RulesOf : r.target[1].occurrence = Occ(1) /\ ValueOf(r) = Py.xing
    /\ \E r \in RulesOf : r.target[1].occurrence = Occ(2) /\ ValueOf(r) = Py.hang

(***************************************************************************)
(* C20.  For a matching rule on a token with k positions equal to the      *)
(* target character: occurrence n with 1 <= n <= k touches only the n-th   *)
(* such position, occurrence "all" touches all k of them, and occurrence   *)
(* n > k changes no decision and records no applied rule, conflict or      *)
(* warning; positions holding other characters are never touched.  Rules   *)
(* occurrence 1 -> xíng and occurrence 2 -> háng on token 行行好 give      *)
(* [xíng, háng, independent resolution of 好].                             *)
(***************************************************************************)
C20_OccurrenceSelection ==
    pc = "overridden" =>
        /\ \A j \in 1..Len(tokens) : \A i \in 0..(Len(tokens[j].text) - 1) :
               /\ Touched(j, i) <=> Selecting(j, i) # {}
               /\ Selecting(j, i) # {} =>
                      DecisionAt(tokens[j], i).chosen \in {ValueOf(r) : r \in Selecting(j, i)}
        /\ \A r \in RulesOf : \A j \in 1..Len(tokens) :
               /\ RecordsAt(r, j) => \E i \in 0..(Len(tokens[j].text) - 1) : Selects(r, j, i)
               /\ OccurrenceBeyond(r, j) =>
                      (~RecordsAt(r, j)
                          /\ (Len(res.overrides_rules) = 1 =>
                                 \A i \in 0..(Len(tokens[j].text) - 1) : ~Touched(j, i)))
        /\ warnings = AnalysisBeforeOverride.warnings
        /\ ExampleRules =>
               \A j \in 1..Len(tokens) :
                   tokens[j].text = XingXingHao =>
                       /\ DecisionAt(tokens[j], 0).chosen = Py.xing
                       /\ DecisionAt(tokens[j], 1).chosen = Py.hang
                       /\ ~Touched(j, 2)

\* token 行行好 under the two rules of the example, the second one applied
C20_Witness ==
    /\ pc = "overridden"
    /\ ExampleRules
    /\ \E j \in 1..Len(tokens) :
           /\ tokens[j].text = XingXingHao
           /\ Touched(j, 0) /\ Touched(j, 1) /\ ~Touched(j, 2)
           /\ Len(applied_rules) = 1

\* one rule asking for the third 行 of a token that holds two
C20_WitnessBeyond ==
    /\ pc = "overridden"
    /\ Len(res.overrides_rules) = 1
    /\ \E j \in 1..Len(tokens) :
           /\ Cardinality(PositionsOf(tokens[j], CP.xing)) = 2
           /\ OccurrenceBeyond(res.overrides_rules[1], j)

(***************************************************************************)
(* SpecShared: two invocations over different texts, in two threads, that  *)
(* share one resource store and one options object.                        *)
(***************************************************************************)
MaxSharedChunks == 2

SharedTexts == ChunkTexts({<<CP.xing>>, <<CP.hao>>, <<CP.a>>}, MaxSharedChunks)

\* the texts of the second invocation
OtherTexts == ChunkTexts({<<CP.xing>>, <<CP.a>>}, MaxSharedChunks)

SharedResources ==
    {BaseRes,
     [BaseRes EXCEPT !.overrides_rules = <<RuleFor(<<CP.a>>, 10, Py.hang), RuleFor(<<CP.b>>, 100, Py.lv)>>,
                     !.lexicon_pinyin = <<CP.xing, CP.hao>> :> (Py.hang \o <<CP.sp>> \o Py.hao)]}

SharedOptions ==
    {[BaseOpts EXCEPT !.llm_adapter = la, !.double_check_adapter = da] :
        la \in {NoAdapter,
                [kind |-> "ok", warnings |-> <<>>,
                 spans |-> <<RespEntry("S0", <<RespToken(<<CP.xing>>, "VERB", "VV", "O")>>)>>]},
        da \in {NoAdapter,
                [kind |-> "ok", items |-> <<CheckItem("S0", 0, 0, Some(Py.hang), FALSE)>>]}}

InitShared ==
    /\ text \in SharedTexts /\ res \in SharedResources /\ opts \in SharedOptions
    /\ pc = "start" /\ run = 1 /\ first_result = None
    /\ LocalsInit
    /\ \E t \in OtherTexts \ {text} : other = invocation(t)

SpecShared == InitShared /\ [][NextShared]_vars

\* the PinyinizeResult of pinyinize(txt, ...) running alone on the resources:
\* six statements, two of them in two steps when an adapter is called
RunAlone(txt) ==
    LET s1 == pinyinize_step(invocation(txt), res, opts)
        s2 == pinyinize_step(s1, res, opts)
        s3 == pinyinize_step(s2, res, opts)
        s4 == pinyinize_step(s3, res, opts)
        s5 == pinyinize_step(s4, res, opts)
        s6 == pinyinize_step(s5, res, opts)
        s7 == pinyinize_step(s6, res, opts)
        s8 == pinyinize_step(s7, res, opts)
    IN  s8.result

ResultsAsAlone ==
    /\ pc = "done" => result = RunAlone(text)
    /\ other.pc = "done" => other.result = RunAlone(other.text)

(***************************************************************************)
(* C21.  pinyinize never mutates the shared resources (word map, lexicon,  *)
(* character base, polyphone table, thresholds) or the rule list;          *)
(* consequently, in any interleaving of two invocations over different     *)
(* texts that share one resource store, each invocation returns the same   *)
(* output text and report as when it runs alone.                           *)
(***************************************************************************)
C21_SharedResourcesReadOnly == [][res' = res]_vars /\ [](ResultsAsAlone)

\* the first invocation has returned with an applied rule while the second,
\* over another text holding 行, waits inside the call of the tagging adapter
C21_Witness ==
    /\ pc = "done" /\ run = 1
    /\ Len(applied_rules) > 0
    /\ other.pc = "split" /\ other.calls.segment_and_tag = 1
    /\ other.text # text
    /\ \E k \in 1..Len(other.text) : other.text[k] = CP.xing

(***************************************************************************)
(* SpecSort: rule lists in every storage order, with integer, missing,     *)
(* string and boolean priorities.                                          *)
(***************************************************************************)
MaxSortRules == 3

SortPriorities ==
    {None, Some(0), Some(10), NotInt("str", <<53>>), NotInt("bool", TRUE)}

SortIds == {<<CP.a>>, <<CP.a, CP.b>>, <<CP.b>>}     \* "a", "ab", "b"

SortRulePool ==
    {[id |-> Some(i), priority |-> pr, match |-> EmptyMap,
      target |-> Some([char |-> Some(<<CP.xing>>), occurrence |-> Occ(1)]), choose |-> Some(Py.lv)] :
        i \in SortIds, pr \in SortPriorities}

InitSort ==
    InitWith({<<CP.xing>>},
             {[BaseRes EXCEPT !.overrides_rules = rs] : rs \in SeqsUpTo(SortRulePool, MaxSortRules)},
             {BaseOpts})

SpecSort == InitSort /\ [][Next]_vars

\* the list the override pass sorts, and the sorted list
StoredRules == res.overrides_rules

SortedRules == sort_rules(StoredRules)

Occurrences_in(seq, r) == Cardinality({k \in 1..Len(seq) : seq[k] = r})

IsPermutationOf(out, inp) ==
    /\ Len(out) = Len(inp)
    /\ \A k \in 1..Len(inp) : Occurrences_in(out, inp[k]) = Occurrences_in(inp, inp[k])

\* the priority as the statement counts it: an integer as itself, a missing
\* or non-integer one as 0
StatedPriority(r) == IF Len(r.priority) = 1 THEN r.priority[1] ELSE 0

\* out is ordered by the priority pri descending, then by id ascending
OrderedBy(out, pri(_)) ==
    \A i \in 1..Len(out) : \A j \in (i + 1)..Len(out) :
        \/ pri(out[i]) > pri(out[j])
        \/ pri(out[i]) = pri(out[j]) /\ ~StrLess(out[j].id[1], out[i].id[1])

DistinctIds(seq) == \A i \in 1..Len(seq) : \A j \in 1..Len(seq) : i # j => seq[i].id # seq[j].id

\* the storage orders of the same rules
StorageOrders(seq) ==
    {[k \in 1..Len(seq) |-> seq[p[k]]] :
        p \in {q \in [1..Len(seq) -> 1..Len(seq)] : \A a, b \in 1..Len(seq) : a # b => q[a] # q[b]}}

SameForEveryStorageOrder ==
    DistinctIds(StoredRules) => \A o \in StorageOrders(StoredRules) : sort_rules(o) = SortedRules

(***************************************************************************)
(* C22.  sort_rules returns a permutation of its input ordered by priority *)
(* descending (a missing or non-integer priority counts as 0) and then by  *)
(* rule id ascending; for rules with distinct ids the resulting order is   *)
(* the same for every storage order of the same rule set.                  *)
(***************************************************************************)
C22_SortRulesOrder ==
    pc = "overridden" =>
        /\ IsPermutationOf(SortedRules, StoredRules)
        /\ OrderedBy(SortedRules, StatedPriority)
        /\ SameForEveryStorageOrder

\* the boolean priority counted as Python counts it: True as 1, False as 0
PythonIntPriority(r) == prio_int(r.priority)

C22_SortRulesOrderBoolAsInt ==
    pc = "overridden" =>
        /\ IsPermutationOf(SortedRules, StoredRules)
        /\ OrderedBy(SortedRules, PythonIntPriority)
        /\ SameForEveryStorageOrder

\* three rules with distinct ids stored in another order than the sorted one,
\* a missing, a string and a boolean priority among them
C22_Witness ==
    /\ pc = "overridden"
    /\ Len(StoredRules) = 3 /\ DistinctIds(StoredRules)
    /\ SortedRules # StoredRules
    /\ {StoredRules[k].priority : k \in 1..3} =
           {None, NotInt("str", <<53>>), NotInt("bool", TRUE)}
    /\ Len(applied_rules) = 1

\* the statement for lists without a boolean priority
C22_SortRulesOrderNoBool ==
    (pc = "overridden" /\ \A k \in 1..Len(StoredRules) : Len(StoredRules[k].priority) < 2
                                                          \/ StoredRules[k].priority[1] # "bool") =>
        /\ IsPermutationOf(SortedRules, StoredRules)
        /\ OrderedBy(SortedRules, StatedPriority)
        /\ SameForEveryStorageOrder

(***************************************************************************)
(* SpecReaffirm: up to three rules with distinct ids for every 行 of the   *)
(* text, some of them choosing the value the analysis already chose.       *)
(***************************************************************************)
MaxReaffirmRules == 3

\* ids "", "a", "b" with priority 10 and id "g" with priority 100
ReaffirmRulePool ==
    {[id |-> Some(i), priority |-> Some(IF i = <<CP.g>> THEN 100 ELSE 10), match |-> EmptyMap,
      target |-> Some([char |-> Some(<<CP.xing>>), occurrence |-> OccAll]), choose |-> Some(c)] :
        i \in {<<>>, <<CP.a>>, <<CP.b>>, <<CP.g>>}, c \in {Py.xing, Py.hang, Py.lv}}

ReaffirmRuleLists ==
    {rs \in SeqsUpTo(ReaffirmRulePool, MaxReaffirmRules) : DistinctIds(rs)}

\* 行行 is one token whose analysis gives xíng, háng; a single 行 gives xíng
InitReaffirm ==
    InitWith({<<CP.xing>>, <<CP.xing, CP.xing>>, <<CP.xing, CP.hao>>},
             {[BaseRes EXCEPT !.word_pinyin = (<<CP.xing, CP.xing>> :> (Py.xing \o <<CP.sp>> \o Py.hang)),
                              !.overrides_rules = rs] : rs \in ReaffirmRuleLists},
             {BaseOpts})

SpecReaffirm == InitReaffirm /\ [][Next]_vars

\* the rules in the order the override pass processes them
Processing == sort_rules(res.overrides_rules)

\* decisions, applied and conflicts when the first k rules have been processed
StateAfter(k) ==
    _apply_overrides(tokens, AnalysisBeforeOverride.decisions, SubSeq(Processing, 1, k))

DecisionAfter(k, j, i) == StateAfter(k).decisions[<<tokens[j].start, tokens[j].end>>][i + 1]

Positions == {<<j, i>> \in (1..Len(tokens)) \X (0..Len(text)) : i < Len(tokens[j].text)}

\* rule k of the processing order finds its own value at position (j, i)
Reaffirms(k, j, i) ==
    /\ Selects(Processing[k], j, i)
    /\ DecisionAfter(k - 1, j, i).chosen = ValueOf(Processing[k])

\* rule m adds exactly one conflict record, for position (j, i) and naming
\* itself as the new rule, and leaves the chosen value as it was
ConflictsWithoutChange(m, j, i) ==
    LET before == StateAfter(m - 1).conflicts
        after  == StateAfter(m).conflicts
        here   == {c \in 1..Len(after) :
                      /\ after[c].token_start = tokens[j].start /\ after[c].offset_in_token = i
                      /\ after[c].new_rule_id = Processing[m].id[1]}
    IN  /\ Cardinality(here) = 1
        /\ \A c \in here : /\ after[c].new_choose = ValueOf(Processing[m])
                           /\ after[c].existing_choose = DecisionAfter(m - 1, j, i).chosen
        /\ DecisionAfter(m, j, i).chosen = DecisionAfter(m - 1, j, i).chosen
        /\ DecisionAfter(m, j, i).conflict

ReaffirmThenConflict(k, j, i) ==
    /\ DecisionAfter(k, j, i).chosen = DecisionAfter(k - 1, j, i).chosen
    /\ DecisionAfter(k, j, i).resolved_by = "override"
    /\ DecisionAfter(k, j, i).rule_id = Processing[k].id
    /\ \A m \in (k + 1)..Len(Processing) :
           (Selects(Processing[m], j, i) /\ ValueOf(Processing[m]) # ValueOf(Processing[k]))
               => ConflictsWithoutChange(m, j, i)

(***************************************************************************)
(* C23.  When a rule's value already equals the position's current chosen  *)
(* value, the value stays unchanged and the position is stamped            *)
(* provenance=override with that rule's id; every later-processed rule     *)
(* with a different id and a different value at that position then         *)
(* produces a conflict record and leaves the chosen value unchanged.       *)
(***************************************************************************)
C23_ReaffirmThenConflict ==
    pc = "overridden" =>
        /\ token_decisions = StateAfter(Len(Processing)).decisions
        /\ \A k \in 1..Len(Processing) : \A p \in Positions :
               Reaffirms(k, p[1], p[2]) => ReaffirmThenConflict(k, p[1], p[2])

\* the same statement for rule lists without the empty id
C23_ReaffirmThenConflictNonEmptyIds ==
    (pc = "overridden" /\ \A k \in 1..Len(Processing) : Processing[k].id[1] # <<>>) =>
        /\ token_decisions = StateAfter(Len(Processing)).decisions
        /\ \A k \in 1..Len(Processing) : \A p \in Positions :
               Reaffirms(k, p[1], p[2]) => ReaffirmThenConflict(k, p[1], p[2])

\* the decision of position p = <<j, i>> in the decision table decs
DecisionIn(decs, p) == decs[<<tokens[p[1]].start, tokens[p[1]].end>>][p[2] + 1]

\* the positions whose chosen value differs between the states s0 and s1 of
\* the override pass
ChangedBetween(s0, s1) ==
    {p \in Positions : DecisionIn(s1.decisions, p).chosen # DecisionIn(s0.decisions, p).chosen}

\* position p lies before position q in the order of tokens and offsets
PositionBefore(p, q) == p[1] < q[1] \/ (p[1] = q[1] /\ p[2] < q[2])

\* the entry that records the change of position p by rule
AppliedEntry(rule, p) ==
    [rule_id |-> rule.id[1], token_start |-> tokens[p[1]].start, token_end |-> tokens[p[1]].end,
     token_text |-> tokens[p[1]].text, target_char |-> rule.target[1].char[1],
     occurrence |-> rule.target[1].occurrence, choose |-> ValueOf(rule)]

\* one entry per position of S, in the order of tokens and offsets
EntriesOf(rule, S) ==
    LET nth(n) == CHOOSE p \in S : Cardinality({q \in S : PositionBefore(q, p)}) = n - 1
    IN  [n \in 1..Cardinality(S) |-> AppliedEntry(rule, nth(n))]

\* rule k of the processing order added one entry for each position it changed
\* and changed only positions it selects, to its own value
OneEntryPerChange(k) ==
    LET s0 == StateAfter(k - 1)
        s1 == StateAfter(k)
        S  == ChangedBetween(s0, s1)
    IN  /\ s1.applied = s0.applied \o EntriesOf(Processing[k], S)
        /\ \A p \in S : /\ Selects(Processing[k], p[1], p[2])
                         /\ DecisionIn(s1.decisions, p).chosen = ValueOf(Processing[k])

(***************************************************************************)
(* C24.  The applied-overrides list gets exactly one entry for each rule   *)
(* application that changed a position's chosen value to the rule's value, *)
(* in processing order; a reaffirmation (value already equal) and a        *)
(* conflict (value left unchanged) add no entry.                           *)
(***************************************************************************)
C24_AppliedEntries ==
    pc = "overridden" =>
        /\ applied_rules = StateAfter(Len(Processing)).applied
        /\ StateAfter(0).applied = <<>>
        /\ \A k \in 1..Len(Processing) : OneEntryPerChange(k)

\* on token 行行 one rule changed the first 行 and found its value at the
\* second, and a later rule ran into a conflict at both
C24_Witness ==
    /\ pc = "overridden"
    /\ Len(applied_rules) = 1
    /\ Len(conflicts) = 2
    /\ \E k \in 1..Len(Processing) : \E p \in Positions :
           Reaffirms(k, p[1], p[2]) /\ ChangedBetween(StateAfter(k - 1), StateAfter(k)) # {}

\* the text has http:// or https://, in either case of the letters, at offset i
UrlSchemeAt(str, i) ==
    LET at(k) == IF k < Len(str) THEN str[k + 1] ELSE 0
        letter(k, lower) == at(k) \in {lower, lower - 32}
        http == letter(i, CP.h) /\ letter(i + 1, CP.t) /\ letter(i + 2, CP.t) /\ letter(i + 3, CP.p)
        sep(k) == at(k) = CP.colon /\ at(k + 1) = CP.slash /\ at(k + 2) = CP.slash
    IN  http /\ (sep(i + 4) \/ (letter(i + 4, CP.s) /\ sep(i + 5)))

\* the offset behind the scheme at offset i
SchemeEnd(str, i) == IF str[i + 5] = CP.colon THEN i + 7 ELSE i + 8

\* the URL pattern matches at offset i: the scheme and one character that is
\* not whitespace
UrlStartsAt(str, i) ==
    /\ UrlSchemeAt(str, i)
    /\ SchemeEnd(str, i) < Len(str)
    /\ ~is_space(str[SchemeEnd(str, i) + 1])

\* sp runs from the scheme to the next whitespace or the end of the text
RunsToWhitespace(str, sp) ==
    /\ UrlStartsAt(str, sp.start)
    /\ \A k \in (sp.start + 1)..sp.end : ~is_space(str[k])
    /\ sp.end = Len(str) \/ is_space(str[sp.end + 1])

\* every token lies inside a Han span, none inside a url span
TokensInHanSpans ==
    \A j \in 1..Len(tokens) : \E k \in 1..Len(spans) :
        /\ spans[k].type = "han" /\ spans[k].span_id = tokens[j].span_id
        /\ spans[k].start <= tokens[j].start /\ tokens[j].end <= spans[k].end

(***************************************************************************)
(* C25.  The splitter tries the URL pattern before every other category at *)
(* each scan position, and a URL span runs from http:// or https:// to the *)
(* next whitespace or the end of the text whatever characters lie between; *)
(* Han ideographs that follow a URL without whitespace are therefore part  *)
(* of the URL span, are emitted verbatim, and get no token or pinyin       *)
(* (访问https://example.com即可 yields exactly one Han span and one url    *)
(* span).                                                                  *)
(***************************************************************************)
C25_UrlSpanToWhitespace ==
    /\ pc # "start" =>
           /\ \A k \in 1..Len(spans) :
                  /\ UrlStartsAt(text, spans[k].start) => spans[k].kind = "url"
                  /\ spans[k].kind = "url" =>
                         spans[k].type = "protected" /\ RunsToWhitespace(text, spans[k])
           /\ text = UrlExampleText =>
                  /\ Len(spans) = 2
                  /\ spans[1].type = "han" /\ spans[1].start = 0 /\ spans[1].end = 2
                  /\ spans[2].kind = "url" /\ spans[2].start = 2 /\ spans[2].end = Len(text)
    /\ pc \in {"tokenized", "analyzed", "overridden", "checked", "done"} => TokensInHanSpans
    /\ pc = "done" =>
           \A k \in 1..Len(spans) :
               spans[k].kind = "url" => IsSubstr(spans[k].text, result[1].output_text)

\* a Han span, then a url span that ends in a Han ideograph: one token only
C25_Witness ==
    /\ pc = "done"
    /\ Len(spans) = 2 /\ spans[1].type = "han" /\ spans[2].kind = "url"
    /\ is_han(text[Len(text)])
    /\ Len(tokens) = 1
    /\ IsSubstr(spans[2].text, result[1].output_text)

\* some polyphone of the text has a context entry, for the key of its token,
\* whose n is float('inf')
HasInfiniteSupport ==
    \E k \in 1..Len(text) :
        /\ text[k] \in DOMAIN res.char_base /\ Len(res.char_base[text[k]]) >= 2
        /\ text[k] \in DOMAIN res.polyphone_disambig
        /\ \E key \in DOMAIN res.polyphone_disambig[text[k]].contexts :
               LET ctx == res.polyphone_disambig[text[k]].contexts[key]
               IN  ctx.best # None /\ ctx.best[1] # <<>> /\ ctx.n = Num(FloatInf)

\* character i of tok is a polyphone resolved through the context entry ctx,
\* one of whose numeric fields is malformed
HasMalformedEntry(tok, i, ctx) ==
    LET ch == tok.text[i + 1]
    IN  /\ ~WordResolved(tok, combined_word_pinyin(res))
        /\ ch \in DOMAIN res.char_base /\ Len(res.char_base[ch]) >= 2
        /\ ch \in DOMAIN res.polyphone_disambig
        /\ context_key(tok.upos, tok.ner) \in DOMAIN res.polyphone_disambig[ch].contexts
        /\ ctx = res.polyphone_disambig[ch].contexts[context_key(tok.upos, tok.ner)]
        /\ ctx.best # None /\ ctx.best[1] # <<>>
        /\ ~WellFormed(ctx)

\* the confidence test on the thresholds of the resources
GateOf(ctx) ==
    LET th == res.disambig_thresholds
    IN  IF th = EmptyMap THEN Gate(ctx, 5, 850, 150)
        ELSE Gate(ctx, th["min_support"], th["min_prob"], th["min_margin"])

\* the entry with every numeric field taken as 0
AllZero(ctx) == [ctx EXCEPT !.n = Num(0), !.p = Num(0), !.p2 = Num(0)]

(***************************************************************************)
(* C26.  When one of a context entry's numeric fields n, p or p2 is        *)
(* malformed (not convertible to a number), resolution does not raise,     *)
(* that field is taken as 0, and the confidence test is evaluated with the *)
(* other fields' supplied values (a malformed p2 with n and p above their  *)
(* thresholds and p >= min_margin still counts as confident).              *)
(***************************************************************************)
C26_MalformedFieldIsZero ==
    /\ pc = "raised" => HasInfiniteSupport
    /\ pc = "analyzed" =>
        \A j \in 1..Len(tokens) : \A i \in 0..(Len(tokens[j].text) - 1) :
            \A ctx \in CtxEntries :
                HasMalformedEntry(tokens[j], i, ctx) =>
                    /\ DecisionAt(tokens[j], i).chosen = ctx.best[1]
                    /\ DecisionAt(tokens[j], i).needs_review <=> ~GateOf(ctx)

\* what holds instead: a field that is not a number raises nothing
\* (resolution raises only on an n that is float('inf')) and makes the test
\* run on 0 for all three fields
C26_MalformedFieldZeroesAll ==
    /\ pc = "raised" => HasInfiniteSupport
    /\ pc = "analyzed" =>
        \A j \in 1..Len(tokens) : \A i \in 0..(Len(tokens[j].text) - 1) :
            \A ctx \in CtxEntries :
                HasMalformedEntry(tokens[j], i, ctx) =>
                    /\ DecisionAt(tokens[j], i).chosen = ctx.best[1]
                    /\ DecisionAt(tokens[j], i).needs_review <=> ~GateOf(AllZero(ctx))

\* the key of a token in the side table of decisions
TokenKey(tok) == <<tok.start, tok.end>>

\* the side table exists: resolution has run
DecisionsExist == pc \in {"analyzed", "overridden", "checked", "done"}

\* no two tokens share the key (start, end)
KeysDistinct ==
    \A j, k \in 1..Len(tokens) : j # k => TokenKey(tokens[j]) # TokenKey(tokens[k])

\* the table holds one list for every token and nothing else
OneListPerToken == DOMAIN token_decisions = {TokenKey(tokens[j]) : j \in 1..Len(tokens)}

\* the list of a token has one decision per character, in the order of the
\* characters
AlignedWithToken(tok) ==
    LET ds == token_decisions[TokenKey(tok)]
    IN  /\ DOMAIN ds = 1..Len(tok.text)
        /\ \A i \in 0..(Len(tok.text) - 1) :
               ds[i + 1].offset_in_token = i /\ ds[i + 1].char = tok.text[i + 1]

DecisionTableShape ==
    DecisionsExist =>
        /\ KeysDistinct
        /\ OneListPerToken
        /\ \A j \in 1..Len(tokens) : AlignedWithToken(tokens[j])

\* a pass over the table keeps its keys, the length of every list and the
\* character and offset of every decision
TableLayoutKept ==
    (DecisionsExist /\ DecisionsExist') =>
        /\ tokens' = tokens
        /\ DOMAIN token_decisions' = DOMAIN token_decisions
        /\ \A key \in DOMAIN token_decisions :
               /\ Len(token_decisions'[key]) = Len(token_decisions[key])
               /\ \A i \in 1..Len(token_decisions[key]) :
                      /\ token_decisions'[key][i].char = token_decisions[key][i].char
                      /\ token_decisions'[key][i].offset_in_token
                             = token_decisions[key][i].offset_in_token

(***************************************************************************)
(* C27.  After resolution, and through the override pass and the           *)
(* double-check pass, no two tokens share the key (start, end), every      *)
(* token has exactly one decision list under its key, that list has one    *)
(* decision per character of the token, and decision i has                 *)
(* offset_in_token = i and char = token.text[i]; no pass adds, removes or  *)
(* reorders decisions.                                                     *)
(***************************************************************************)
C27_DecisionTableShape == [](DecisionTableShape) /\ [][TableLayoutKept]_vars

\* a token of two characters with a decision set by a rule and a decision set
\* by the double check
C27_Witness ==
    /\ pc = "done"
    /\ \E j \in 1..Len(tokens) : Len(tokens[j].text) = 2
    /\ applied_rules # <<>>
    /\ \E j \in 1..Len(tokens) : \E i \in 0..(Len(tokens[j].text) - 1) :
           DecisionAt(tokens[j], i).resolved_by = "llm_double_check"
    /\ DecisionTableShape

(***************************************************************************)
(* Double-check responses that address decisions outside the request, or   *)
(* that carry a char field: texts of 行 (two candidates, waits for review), *)
(* 银行 (a word of the dictionary, confidence 1.0) and 好 (one candidate).   *)
(***************************************************************************)
MaxAdvisoryChunks == 2

MaxAdvisoryItems == 1

\* a response item with a char field
CheckItemChar(sid, idx, off, ch, rec, needs_user) ==
    [CheckItem(sid, idx, off, rec, needs_user) EXCEPT !.char = ch]

AdvisoryItemPool ==
    { CheckItem("S0", 0, 0, Some(Py.lv), FALSE),
      CheckItem("S0", 0, 1, Some(Py.xing), FALSE),
      CheckItem("S0", 1, 0, Some(Py.hang), FALSE),
      CheckItem("S0", 1, 0, None, TRUE),
      CheckItemChar("S0", 0, 0, Some(<<CP.xing>>), Some(Py.hang), FALSE),
      CheckItemChar("S0", 0, 0, Some(<<CP.hao>>), Some(Py.lv), FALSE),
      CheckItemChar("S0", 0, 0, Some(<<>>), Some(Py.hang), FALSE),
      CheckItemChar("S0", 1, 0, Some(<<CP.hao>>), Some(Py.hang), TRUE) }

AdvisoryAdapters ==
    {NoAdapter} \cup {[kind |-> "ok", items |-> its] : its \in SeqsUpTo(AdvisoryItemPool, MaxAdvisoryItems)}

InitAdvisory ==
    InitWith(ChunkTexts({<<CP.xing>>, <<CP.yin, CP.xing>>, <<CP.hao>>}, MaxAdvisoryChunks),
             {BaseRes},
             {[BaseOpts EXCEPT !.double_check_adapter = da] : da \in AdvisoryAdapters})

SpecAdvisory == InitAdvisory /\ [][Next]_vars

\* the double check has run
AfterCheck == pc \in {"checked", "done"}

\* character i of token j was among the review items of the request
SentForReview(j, i) ==
    \E k \in 1..Len(review_items_before) :
        /\ review_items_before[k].span_id = tokens[j].span_id
        /\ review_items_before[k].token_index = tokens[j].index_in_span
        /\ review_items_before[k].char_offset_in_token = i

\* some item of the response addresses character i of token j
AddressedByResponse(j, i) ==
    /\ opts.double_check_adapter.kind = "ok"
    /\ \E k \in 1..Len(opts.double_check_adapter.items) :
           LET it == opts.double_check_adapter.items[k]
           IN  /\ it.span_id = Some(tokens[j].span_id)
               /\ it.token_index = Some(tokens[j].index_in_span)
               /\ it.char_offset_in_token = Some(i)

\* the double check left value, provenance and review flag of the decision
KeptByCheck(j, i) ==
    LET d  == DecisionAt(tokens[j], i)
        d0 == DecisionsBeforeCheck[TokenKey(tokens[j])][i + 1]
    IN  d.chosen = d0.chosen /\ d.resolved_by = d0.resolved_by /\ d.needs_review = d0.needs_review

(***************************************************************************)
(* C28.  The double-check pass changes the chosen value, provenance or     *)
(* needs_review flag only of decisions that were among the review items    *)
(* sent in the request; a response item that addresses an existing         *)
(* decision which was not a review item (for example a word-resolved       *)
(* character with confidence 1.0) leaves that decision unchanged.          *)
(***************************************************************************)
C28_OnlyReviewItemsChange ==
    AfterCheck =>
        \A j \in 1..Len(tokens) : \A i \in 0..(Len(tokens[j].text) - 1) :
            ~SentForReview(j, i) => KeptByCheck(j, i)

\* what holds instead: a decision changes only if a request was sent and an
\* item of the response addresses it
C28_OnlyAddressedDecisionsChange ==
    AfterCheck =>
        \A j \in 1..Len(tokens) : \A i \in 0..(Len(tokens[j].text) - 1) :
            ~(DoubleCheckCalled /\ AddressedByResponse(j, i)) => KeptByCheck(j, i)

\* the item addresses a decision and its char field is a non-empty string
\* different from the character of that decision
CharMismatch(it) ==
    /\ ~Dangling(it)
    /\ it.char # None /\ it.char[1] # <<>>
    /\ \E k \in 1..Len(tokens) :
           /\ tokens[k].span_id = it.span_id[1]
           /\ tokens[k].index_in_span = it.token_index[1]
           /\ it.char[1] # <<tokens[k].text[it.char_offset_in_token[1] + 1]>>

\* the configured response without its items of mismatching char
WithoutCharMismatch ==
    LET Sound(it) == ~CharMismatch(it)
    IN  [kind |-> "ok", items |-> SelectSeq(opts.double_check_adapter.items, Sound)]

\* the configured response with the char field of every item removed
WithoutCharFields ==
    [kind |-> "ok",
     items |-> [k \in 1..Len(opts.double_check_adapter.items) |->
                   [opts.double_check_adapter.items[k] EXCEPT !.char = None]]]

NumCharMismatch ==
    Cardinality({k \in 1..Len(opts.double_check_adapter.items) :
                    CharMismatch(opts.double_check_adapter.items[k])})

NumMismatchWarnings ==
    Cardinality({k \in 1..Len(double_check_meta.warnings[1]) :
                    double_check_meta.warnings[1][k][1] = "double_check_item_char_mismatch"})

\* value, provenance and review flag of every decision are those of table D
SameVerdictsAs(D) ==
    \A j \in 1..Len(tokens) : \A i \in 0..(Len(tokens[j].text) - 1) :
        LET d  == DecisionAt(tokens[j], i)
            d0 == D[TokenKey(tokens[j])][i + 1]
        IN  d.chosen = d0.chosen /\ d.resolved_by = d0.resolved_by /\ d.needs_review = d0.needs_review

CheckAnswered == AfterCheck /\ DoubleCheckCalled /\ opts.double_check_adapter.kind = "ok"

(***************************************************************************)
(* C30.  A double-check response item whose char field is a non-empty      *)
(* string different from the character of the decision it addresses is not *)
(* applied: a char-mismatch warning is recorded and the decision's chosen  *)
(* value, provenance and needs_review flag stay unchanged.                 *)
(***************************************************************************)
C30_CharMismatchNotApplied ==
    CheckAnswered =>
        /\ NumMismatchWarnings = NumCharMismatch
        /\ SameVerdictsAs(CheckWith(WithoutCharMismatch).decisions)

\* what holds instead: the warning is recorded and the item is applied as if
\* it carried no char field
C30_CharMismatchOnlyWarns ==
    CheckAnswered =>
        /\ NumMismatchWarnings = NumCharMismatch
        /\ token_decisions = CheckWith(WithoutCharFields).decisions

(***************************************************************************)
(* Rules that set or reaffirm the reading of 行, over decisions that wait   *)
(* for review or carry a low confidence, followed by a double check.       *)
(***************************************************************************)
MaxReviewChunks == 2

\* 行 as a fallback token (pos=X|ner=O): best háng with p = 0.75, below the
\* double-check threshold 0.85
LowConfidenceTable ==
    CP.xing :> [default |-> None, candidates |-> <<Py.xing, Py.hang>>,
                contexts |-> (context_key("X", "O") :>
                                 [best |-> Some(Py.hang), p |-> Num(750), p2 |-> Num(0), n |-> Num(5)])]

ReviewRuleLists ==
    { <<>>,
      <<RuleFor(<<CP.a>>, 10, Py.xing)>>,
      <<RuleFor(<<CP.a>>, 10, Py.hang)>>,
      <<RuleFor(<<CP.a>>, 10, Py.lv)>>,
      <<RuleFor(<<CP.a>>, 10, Py.hang), RuleFor(<<CP.b>>, 10, Py.lv)>>,
      <<RuleFor(<<CP.a>>, 10, Py.lv), RuleFor(<<CP.b>>, 100, Py.lv)>> }

ReviewAdapters ==
    { NoAdapter,
      [kind |-> "ok", items |-> <<>>],
      [kind |-> "ok", items |-> <<CheckItem("S0", 0, 0, Some(Py.zhang), FALSE)>>] }

InitReview ==
    InitWith(ChunkTexts({<<CP.xing>>, <<CP.hao>>}, MaxReviewChunks),
             {[BaseRes EXCEPT !.overrides_rules = rs, !.polyphone_disambig = t] :
                 rs \in ReviewRuleLists, t \in {EmptyMap, LowConfidenceTable}},
             {[BaseOpts EXCEPT !.double_check_adapter = da] : da \in ReviewAdapters})

SpecReview == InitReview /\ [][Next]_vars

\* the decision for character i of token j as the override pass left it
AfterOverride(j, i) == DecisionsBeforeCheck[TokenKey(tokens[j])][i + 1]

\* a rule set or reaffirmed the value and no conflict was flagged
OverriddenWithoutConflict(j, i) ==
    AfterOverride(j, i).resolved_by = "override" /\ ~AfterOverride(j, i).conflict

\* the value differs from the one resolution chose: a rule set it
SetByRule(j, i) ==
    AfterOverride(j, i).chosen # DecisionBeforeOverride(tokens[j], i).chosen

(***************************************************************************)
(* C29.  After the override pass, a decision whose provenance is override  *)
(* and whose conflict flag is not set is never among the review items      *)
(* collected for the double-check, so the advisory is never asked about,   *)
(* and never replaces, a value that a user rule set or reaffirmed without  *)
(* conflict.                                                               *)
(***************************************************************************)
C29_OverriddenNotReviewed ==
    AfterCheck =>
        \A j \in 1..Len(tokens) : \A i \in 0..(Len(tokens[j].text) - 1) :
            OverriddenWithoutConflict(j, i) => ~SentForReview(j, i) /\ KeptByCheck(j, i)

\* what holds instead: a value that a rule set (not one it reaffirmed), without
\* conflict, on a decision with no confidence below the threshold is never
\* among the review items
C29_SetByRuleNotReviewed ==
    AfterCheck =>
        \A j \in 1..Len(tokens) : \A i \in 0..(Len(tokens[j].text) - 1) :
            ( /\ OverriddenWithoutConflict(j, i)
              /\ SetByRule(j, i)
              /\ \/ AfterOverride(j, i).confidence = None
                 \/ AfterOverride(j, i).confidence[1] >= opts.double_check_threshold )
            => ~SentForReview(j, i)

====
